---- MODULE Spec2Model ----
(***************************************************************************)
(* Gatekeeper credential lifecycle core: the bootstrap helper routines of  *)
(* the target database, the PostgreSQL provider that calls them through an *)
(* admin connection pool, and the agent orchestrator that routes jobs.     *)
(*                                                                         *)
(* Time is counted in minutes.  A role name is a string; Chars gives its   *)
(* characters so that the helpers' regular expressions are evaluated.      *)
(***************************************************************************)
EXTENDS Integers, Sequences, FiniteSets, TLC

\* ------------------------------------------------------------------------
\* Bounds
\* ------------------------------------------------------------------------
MaxTime == 2
MaxTtl == 1
MaxJobs == 2

\* ------------------------------------------------------------------------
\* Value universes
\* ------------------------------------------------------------------------
NULL == -1
\* helper: the routine that created the role (history, not a catalog column)
NoRole == [exists |-> FALSE, validUntil |-> NULL, connLimit |-> 0, member |-> "", helper |-> ""]

\* NAMEDATALEN: an identifier keeps its first NAMEDATALEN - 1 characters
NAMEDATALEN == 64
\* 'gk_' + 'x'.repeat(70), and the identifier PostgreSQL stores for it
LongName == "gk_xxxxxxxxxxxxxxxxxxxxxxxxxxxxxxxxxxxxxxxxxxxxxxxxxxxxxxxxxxxxxxxxxxxxxx"
StoredLongName == "gk_xxxxxxxxxxxxxxxxxxxxxxxxxxxxxxxxxxxxxxxxxxxxxxxxxxxxxxxxxxxx"

\* names a role of the cluster can carry in this model
UserNames == {"gk_a1", "gk_b2", "gk_bob_1", StoredLongName}
\* names the orchestrator's generateId can produce ('gk_' + hex)
GeneratedNames == {"gk_a1", "gk_b2"}
GeneratedSessionIds == {"ses_c3", "ses_d4"}
Passwords == {"pw"}
BootstrapRoles == {"gatekeeper_admin", "app_read", "app_write", "app_admin", "app_analyst"}
RequestRoles == {"app_read", "app_none"}
ConnLimits == {1, 2}
JobIds == {"j1", "j2"}

Chars(n) ==
  CASE n = "gk_a1" -> <<"g", "k", "_", "a", "1">>
    [] n = "gk_b2" -> <<"g", "k", "_", "b", "2">>
    [] n = "gk_bob_1" -> <<"g", "k", "_", "b", "o", "b", "_", "1">>
    [] n = "gk_" -> <<"g", "k", "_">>
    [] n = "bob" -> <<"b", "o", "b">>
    [] n = "invalid_user" -> <<"i", "n", "v", "a", "l", "i", "d", "_", "u", "s", "e", "r">>
    [] n = "gk_user-with-hyphens" -> <<"g", "k", "_", "u", "s", "e", "r", "-", "w", "i", "t", "h", "-", "h", "y", "p", "h", "e", "n", "s">>
    [] n = "gk_user.with.dots" -> <<"g", "k", "_", "u", "s", "e", "r", ".", "w", "i", "t", "h", ".", "d", "o", "t", "s">>
    [] n = "gk_user with spaces" -> <<"g", "k", "_", "u", "s", "e", "r", " ", "w", "i", "t", "h", " ", "s", "p", "a", "c", "e", "s">>
    [] n = LongName -> [i \in 1..73 |-> IF i = 1 THEN "g" ELSE IF i = 2 THEN "k"
                                          ELSE IF i = 3 THEN "_" ELSE "x"]
    [] n = StoredLongName -> [i \in 1..63 |-> IF i = 1 THEN "g" ELSE IF i = 2 THEN "k"
                                                ELSE IF i = 3 THEN "_" ELSE "x"]
    [] OTHER -> <<>>

Lower == {"a", "b", "c", "d", "e", "f", "g", "h", "i", "j", "k", "l", "m", "n", "o", "p",
          "q", "r", "s", "t", "u", "v", "w", "x", "y", "z"}
Upper == {"A", "B", "C", "D", "E", "F", "G", "H", "I", "J", "K", "L", "M", "N", "O", "P",
          "Q", "R", "S", "T", "U", "V", "W", "X", "Y", "Z"}
Digit == {"0", "1", "2", "3", "4", "5", "6", "7", "8", "9"}
Alnum == Lower \cup Upper \cup Digit

\* the name a statement's identifier denotes: longer ones are truncated
Identifier(n) ==
  IF Len(Chars(n)) < NAMEDATALEN THEN n
  ELSE CHOOSE m \in UserNames : Chars(m) = SubSeq(Chars(n), 1, NAMEDATALEN - 1)

\* username ~ '^gk_[a-zA-Z0-9_]+$'
MatchesCreatePattern(n) ==
  LET s == Chars(n) IN
    /\ Len(s) >= 4
    /\ s[1] = "g" /\ s[2] = "k" /\ s[3] = "_"
    /\ \A i \in 4..Len(s) : s[i] \in Alnum \cup {"_"}

\* rolname ~ '^gk_[a-zA-Z0-9]+$'
MatchesListPattern(n) ==
  LET s == Chars(n) IN
    /\ Len(s) >= 4
    /\ s[1] = "g" /\ s[2] = "k" /\ s[3] = "_"
    /\ \A i \in 4..Len(s) : s[i] \in Alnum

\* username ~ '^[a-z][a-z0-9_]*$'
MatchesPermanentPattern(n) ==
  LET s == Chars(n) IN
    /\ Len(s) >= 1
    /\ s[1] \in Lower
    /\ \A i \in 2..Len(s) : s[i] \in Alnum \cup {"_"}

\* error texts, as sequences of words, so that String.includes is computed
MsgEmptyUser == <<"Username", "cannot", "be", "empty">>
MsgEmptyPassword == <<"Password", "cannot", "be", "empty">>
MsgPattern == <<"Username", "must", "follow", "pattern">>
MsgPast == <<"Valid", "until", "timestamp", "must", "be", "in", "the", "future">>
MsgNoRole == <<"Role", "x", "does", "not", "exist">>
MsgExists == <<"role", "x", "already", "exists">>
MsgDropPattern == <<"Can", "only", "drop", "gatekeeper", "users">>
MsgDependent == <<"role", "x", "cannot", "be", "dropped">>
MsgLost == <<"Connection", "terminated", "unexpectedly">>
NoMsg == <<>>

\* String.prototype.includes on word sequences
Includes(msg, phrase) ==
  \E i \in 1..(Len(msg) - Len(phrase) + 1) :
    \A j \in 1..Len(phrase) : msg[i + j - 1] = phrase[j]

VARIABLES
  now,          \* the database clock, now()
  pg_roles,     \* the cluster's roles: name -> attributes
  poolOpen,     \* PostgresProvider.pool is defined
  checkedOut,   \* admin connections checked out of the pool
  initialized,  \* GatekeeperAgent.initialized
  auditLog,     \* audit events the orchestrator has emitted, in order
  jobsDone,     \* number of processJob calls made
  issued,       \* <<sessionId, username>> of every ready create_session result
  firstReady,   \* job id -> the first ready create_session result it produced
  track,        \* the create/drop pair being followed (history)
  last,         \* the call that completed last, with its outcome
  sessionMaxTtlMinutes,  \* AgentConfig.sessionMaxTtlMinutes
  gatekeeper_audit,      \* the rows of the gatekeeper_audit table, by id
  inflight,     \* the processJob calls that are suspended at an await
  factories,    \* DefaultDatabaseProviderRegistry.factories of the process-wide registry
  orphanPool,   \* a pool some initialize opened is still open and no longer referenced
  closing,      \* the shutdown calls in progress, and close() calls since initialize
  pg_stat_activity,  \* client backends by login: how many are active, how many idle
  sweep         \* the helper calls in progress, statement by statement

vars == <<now, pg_roles, poolOpen, checkedOut, initialized, auditLog, jobsDone,
          issued, firstReady, track, last, sessionMaxTtlMinutes, gatekeeper_audit,
          inflight, factories, orphanPool, closing, pg_stat_activity, sweep>>

\* what the calls that run to completion in one step leave alone
configVars ==
  <<sessionMaxTtlMinutes, gatekeeper_audit, inflight, factories, pg_stat_activity, sweep>>
\* what every call but initialize and shutdown leaves alone
poolVars == <<orphanPool, closing>>

RoleExists(roles, r) ==
  \/ r \in BootstrapRoles
  \/ r \in UserNames /\ roles[r].exists

\* a check that lets the present instant through
NotInFutureLax(valid_until, t) == valid_until < t

\* valid_until <= now()
NotInFuture(valid_until, t) == valid_until <= t

\* gk_create_ephemeral_user: [err, roles]
gk_create_ephemeral_user(roles, t, username, password, valid_until, role_name, connection_limit) ==
  IF username = "" THEN [err |-> MsgEmptyUser, roles |-> roles]
  ELSE IF password = "" THEN [err |-> MsgEmptyPassword, roles |-> roles]
  ELSE IF ~MatchesCreatePattern(username) THEN [err |-> MsgPattern, roles |-> roles]
  ELSE IF NotInFuture(valid_until, t) THEN [err |-> MsgPast, roles |-> roles]
  ELSE IF ~RoleExists(roles, role_name) THEN [err |-> MsgNoRole, roles |-> roles]
  ELSE IF RoleExists(roles, Identifier(username)) THEN [err |-> MsgExists, roles |-> roles]
  ELSE [err |-> NoMsg,
        roles |-> [roles EXCEPT ![Identifier(username)] =
                     [exists |-> TRUE, validUntil |-> valid_until,
                      connLimit |-> connection_limit, member |-> role_name,
                      helper |-> "ephemeral"]]]

\* gk_create_permanent_user: [err, roles]
gk_create_permanent_user(roles, username, password, valid_until, connection_limit) ==
  IF username = "" THEN [err |-> MsgEmptyUser, roles |-> roles]
  ELSE IF password = "" THEN [err |-> MsgEmptyPassword, roles |-> roles]
  ELSE IF ~MatchesPermanentPattern(username) THEN [err |-> MsgPattern, roles |-> roles]
  ELSE IF RoleExists(roles, username) THEN [err |-> MsgExists, roles |-> roles]
  ELSE [err |-> NoMsg,
        roles |-> [roles EXCEPT ![username] =
                     [exists |-> TRUE, validUntil |-> valid_until,
                      connLimit |-> connection_limit, member |-> "app_read",
                      helper |-> "permanent"]]]

\* gk_drop_user without the existence check: DROP ROLE raises for an absent role
gk_drop_user_strict(roles, username, dropFails) ==
  IF username = "" THEN [err |-> MsgEmptyUser, ret |-> FALSE, roles |-> roles]
  ELSE IF ~MatchesCreatePattern(username)
    THEN [err |-> MsgDropPattern, ret |-> FALSE, roles |-> roles]
  ELSE IF ~RoleExists(roles, username) \/ dropFails
    THEN [err |-> MsgDependent, ret |-> FALSE, roles |-> roles]
  ELSE [err |-> NoMsg, ret |-> TRUE, roles |-> [roles EXCEPT ![username] = NoRole]]

\* gk_drop_user that revokes the privileges and reports success without DROP ROLE
gk_drop_user_keep(roles, username, dropFails) ==
  IF username = "" THEN [err |-> MsgEmptyUser, ret |-> FALSE, roles |-> roles]
  ELSE IF ~MatchesCreatePattern(username)
    THEN [err |-> MsgDropPattern, ret |-> FALSE, roles |-> roles]
  ELSE IF ~RoleExists(roles, username) THEN [err |-> NoMsg, ret |-> FALSE, roles |-> roles]
  ELSE IF dropFails THEN [err |-> MsgDependent, ret |-> FALSE, roles |-> roles]
  ELSE [err |-> NoMsg, ret |-> TRUE, roles |-> roles]

\* gk_drop_user: [err, ret, roles]; dropFails: the DROP ROLE statement fails
gk_drop_user(roles, username, dropFails) ==
  IF username = "" THEN [err |-> MsgEmptyUser, ret |-> FALSE, roles |-> roles]
  ELSE IF ~MatchesCreatePattern(username)
    THEN [err |-> MsgDropPattern, ret |-> FALSE, roles |-> roles]
  ELSE IF ~RoleExists(roles, username) THEN [err |-> NoMsg, ret |-> FALSE, roles |-> roles]
  ELSE IF dropFails THEN [err |-> MsgDependent, ret |-> FALSE, roles |-> roles]
  ELSE [err |-> NoMsg, ret |-> TRUE, roles |-> [roles EXCEPT ![username] = NoRole]]

\* (rolvaliduntil IS NOT NULL AND rolvaliduntil <= now())
IsExpired(r, t) == r.validUntil # NULL /\ r.validUntil <= t

\* gk_list_ephemeral_users: the set of rows
gk_list_ephemeral_users(roles, t) ==
  { [username |-> n, valid_until |-> roles[n].validUntil,
     is_expired |-> IsExpired(roles[n], t),
     connection_limit |-> roles[n].connLimit, active_connections |-> 0] :
    n \in { m \in UserNames : roles[m].exists /\ MatchesListPattern(m) } }

\* the rows gk_cleanup_expired_users loops over
CleanupCandidates(roles, t, older_than_minutes) ==
  { n \in UserNames :
      /\ roles[n].exists
      /\ MatchesListPattern(n)
      /\ \/ roles[n].validUntil # NULL /\ roles[n].validUntil <= t - older_than_minutes
         \/ roles[n].validUntil = NULL }

\* gk_cleanup_expired_users: [rows, roles]; failSet: candidates whose drop raises
gk_cleanup_expired_users(roles, t, older_than_minutes, failSet) ==
  LET cand == CleanupCandidates(roles, t, older_than_minutes) IN
    [rows |-> { [username |-> n, was_expired |-> TRUE,
                 dropped |-> gk_drop_user(roles, n, n \in failSet).ret,
                 error_message |-> gk_drop_user(roles, n, n \in failSet).err] : n \in cand },
     roles |-> [n \in UserNames |->
                  IF n \in cand THEN gk_drop_user(roles, n, n \in failSet).roles[n]
                  ELSE roles[n]]]

\* ------------------------------------------------------------------------
\* PostgreSQL provider
\* ------------------------------------------------------------------------
NoErr == [kind |-> "", code |-> "", retryable |-> FALSE]
ProviderError(code, retryable) ==
  [kind |-> "DatabaseProviderError", code |-> code, retryable |-> retryable]
\* what pool.connect() rejects with: a plain driver error
DriverError == [kind |-> "Error", code |-> "", retryable |-> FALSE]
NotInitialized == ProviderError("NOT_INITIALIZED", FALSE)

\* the faults a call can meet
CreateFaults == {"none", "connect", "begin", "stmt", "commit", "rollback"}
StmtFaults == {"none", "connect", "stmt"}

\* the release placed after the rollback instead of in the finally block
ReleasesLeak(op, path) == IF path = "rollback_failed" THEN 0 ELSE 1

\* releases of the admin connection on an exit path of a provider operation:
\* each operation releases in a finally block once the connection is acquired
Releases(op, path) == 1

\* the catch block of createEphemeralUser: error text -> provider error
MapCreateError(msg) ==
  IF Includes(msg, <<"already", "exists">>) THEN ProviderError("USER_EXISTS", FALSE)
  ELSE IF Includes(msg, <<"Role">>) /\ Includes(msg, <<"does", "not", "exist">>)
    THEN ProviderError("ROLE_NOT_FOUND", FALSE)
  ELSE ProviderError("USER_CREATION_FAILED", TRUE)

\* encodeURIComponent leaves [A-Za-z0-9_] as it is
GenerateDsn(username, password) == <<"postgresql", username, password, "prefer">>

\* a record handed to the logger: the message and the fields passed with it
\* (error: the message of a logged error object)
NoLog == [msg |-> "", sessionId |-> "", username |-> "", role |-> "", jobId |-> "",
          error |-> NoMsg, password |-> "", dsn |-> <<>>]

\* a success log of createEphemeralUser that also passes the DSN
createdLogWithDsn(req, dsn) ==
  [NoLog EXCEPT !.msg = "PostgreSQL ephemeral user created successfully",
                !.username = req.username, !.dsn = dsn]

\* the success log of createEphemeralUser: username and expiresAt
createdLog(req, dsn) ==
  [NoLog EXCEPT !.msg = "PostgreSQL ephemeral user created successfully",
                !.username = req.username]

\* the logs createEphemeralUser writes once it holds a connection
creatingLog(req) ==
  [NoLog EXCEPT !.msg = "Creating PostgreSQL ephemeral user", !.username = req.username,
                !.role = req.role]
createFailedLog(req, msg) ==
  [NoLog EXCEPT !.msg = "Failed to create PostgreSQL ephemeral user",
                !.username = req.username, !.error = msg]

\* a ROLLBACK that keeps what the transaction did
RolledBackKeeps(before, after) == after

\* ROLLBACK: the roles are those of before BEGIN
RolledBack(before, after) == before

\* PostgresProvider.createEphemeralUser
\* [threw, err, roles, acq, rel, path, dbmsg, username, dsn, expiresAt, connectionLimit,
\*  logs]; dbmsg: the error of the helper statement
createEphemeralUser(open, roles, t, req, fault) ==
  LET expiresAt == t + req.ttlMinutes
      helper == gk_create_ephemeral_user(roles, t, req.username, req.password,
                                         expiresAt, req.role, req.connectionLimit)
      \* what the helper statement raised, when it is the statement that failed
      raised == IF helper.err # NoMsg THEN helper.err ELSE MsgLost
      fail(e, a, path, msg) ==
        [threw |-> TRUE, err |-> e, roles |-> roles, acq |-> a,
         rel |-> IF a = 0 THEN 0 ELSE Releases("createEphemeralUser", path), path |-> path,
         dbmsg |-> IF path = "rollback_failed" THEN raised
                   ELSE IF path \in {"statement", "raised"} THEN msg ELSE NoMsg,
         username |-> "", dsn |-> <<>>, expiresAt |-> NULL, connectionLimit |-> 0,
         logs |-> IF a = 0 THEN <<>> ELSE << creatingLog(req), createFailedLog(req, msg) >>]
  IN
    IF ~open THEN fail(NotInitialized, 0, "not_initialized", NoMsg)
    ELSE IF fault = "connect" THEN fail(DriverError, 0, "connect", MsgLost)
    ELSE IF fault = "begin" THEN fail(MapCreateError(MsgLost), 1, "begin", MsgLost)
    ELSE IF fault = "rollback"
      THEN fail(MapCreateError(MsgLost), 1, "rollback_failed", MsgLost)
    ELSE IF fault = "stmt" THEN fail(MapCreateError(MsgLost), 1, "statement", MsgLost)
    ELSE IF helper.err # NoMsg
      THEN fail(MapCreateError(helper.err), 1, "raised", helper.err)
    ELSE IF fault = "commit"
      THEN [fail(MapCreateError(MsgLost), 1, "commit", MsgLost)
              EXCEPT !.roles = RolledBack(roles, helper.roles)]
    ELSE [threw |-> FALSE, err |-> NoErr, roles |-> helper.roles, acq |-> 1,
          rel |-> Releases("createEphemeralUser", "success"), path |-> "success",
          dbmsg |-> NoMsg,
          username |-> req.username, dsn |-> GenerateDsn(req.username, req.password),
          expiresAt |-> expiresAt, connectionLimit |-> req.connectionLimit,
          logs |-> << creatingLog(req),
                      createdLog(req, GenerateDsn(req.username, req.password)) >>]

\* PostgresProvider.dropUser: [threw, err, ret, roles, acq, rel, path]
\* path "statement": the statement is lost; "raised": the helper raised
dropUser(open, roles, username, fault) ==
  LET helper == gk_drop_user(roles, username, fault = "dropfail")
      fail(e, a, path) ==
        [threw |-> TRUE, err |-> e, ret |-> FALSE, roles |-> roles, acq |-> a,
         rel |-> IF a = 0 THEN 0 ELSE Releases("dropUser", path), path |-> path]
  IN
    IF ~open THEN fail(NotInitialized, 0, "not_initialized")
    ELSE IF fault = "connect" THEN fail(DriverError, 0, "connect")
    ELSE IF fault = "stmt" THEN fail(ProviderError("USER_DROP_FAILED", TRUE), 1, "statement")
    ELSE IF helper.err # NoMsg
      THEN fail(ProviderError("USER_DROP_FAILED", TRUE), 1, "raised")
    ELSE [threw |-> FALSE, err |-> NoErr, ret |-> helper.ret, roles |-> helper.roles,
          acq |-> 1, rel |-> Releases("dropUser", "success"), path |-> "success"]

\* PostgresProvider.listEphemeralUsers: [threw, err, rows, acq, rel, path]
listEphemeralUsers(open, roles, t, fault) ==
  LET fail(e, a, path) ==
        [threw |-> TRUE, err |-> e, rows |-> {}, acq |-> a, path |-> path,
         rel |-> IF a = 0 THEN 0 ELSE Releases("listEphemeralUsers", path)]
  IN
    IF ~open THEN fail(NotInitialized, 0, "not_initialized")
    ELSE IF fault = "connect" THEN fail(DriverError, 0, "connect")
    ELSE IF fault = "stmt" THEN fail(ProviderError("USER_LIST_FAILED", TRUE), 1, "statement")
    ELSE [threw |-> FALSE, err |-> NoErr,
          rows |-> { [username |-> r.username,
                      expiresAt |-> r.valid_until,
                      isExpired |-> r.is_expired,
                      activeConnections |-> r.active_connections] :
                     r \in gk_list_ephemeral_users(roles, t) },
          acq |-> 1, path |-> "success",
          rel |-> Releases("listEphemeralUsers", "success")]

\* PostgresProvider.cleanupExpiredUsers: [threw, err, rows, roles, acq, rel, path]
cleanupExpiredUsers(open, roles, t, olderThanMinutes, fault, failSet) ==
  LET helper == gk_cleanup_expired_users(roles, t, olderThanMinutes, failSet)
      fail(e, a, path) ==
        [threw |-> TRUE, err |-> e, rows |-> {}, roles |-> roles, acq |-> a,
         path |-> path,
         rel |-> IF a = 0 THEN 0 ELSE Releases("cleanupExpiredUsers", path)]
  IN
    IF ~open THEN fail(NotInitialized, 0, "not_initialized")
    ELSE IF fault = "connect" THEN fail(DriverError, 0, "connect")
    ELSE IF fault = "stmt" THEN fail(ProviderError("CLEANUP_FAILED", TRUE), 1, "statement")
    ELSE [threw |-> FALSE, err |-> NoErr,
          rows |-> { [username |-> r.username, wasExpired |-> r.was_expired,
                      dropped |-> r.dropped, errorMessage |-> r.error_message] :
                     r \in helper.rows },
          roles |-> helper.roles, acq |-> 1, path |-> "success",
          rel |-> Releases("cleanupExpiredUsers", "success")]

\* a statement handed to client.query: its text, in words, and its parameters
Stmt(text, params) == [text |-> text, params |-> params]
SelectOne == Stmt(<<"SELECT", "1">>, <<>>)
\* the statements createEphemeralUser sends, in order, on each of its paths
createStatements(req, expiresAt, path) ==
  LET helper == Stmt(<<"SELECT", "gk_create_ephemeral_user", "$1", "$2", "$3", "$4", "$5">>,
                     <<req.username, req.password, expiresAt, req.role,
                       req.connectionLimit>>)
      begin == Stmt(<<"BEGIN">>, <<>>)
      commit == Stmt(<<"COMMIT">>, <<>>)
      rollback == Stmt(<<"ROLLBACK">>, <<>>)
  IN
    IF path \in {"not_initialized", "connect"} THEN <<>>
    ELSE IF path = "begin" THEN <<begin>>
    ELSE IF path \in {"statement", "raised", "rollback_failed"}
      THEN <<begin, helper, rollback>>
    ELSE IF path = "commit" THEN <<begin, helper, commit, rollback>>
    ELSE <<begin, helper, commit, Stmt(<<"SELECT", "version">>, <<>>)>>

\* a dropUser that puts the name into a DROP ROLE of its own
dropUserStatementsInline(username, path) ==
  IF path \in {"not_initialized", "connect"} THEN <<>>
  ELSE << Stmt(<<"DROP", "ROLE", username>>, <<>>) >>

\* the statement dropUser sends
dropUserStatements(username, path) ==
  IF path \in {"not_initialized", "connect"} THEN <<>>
  ELSE << Stmt(<<"SELECT", "gk_drop_user", "$1">>, <<username>>) >>

\* the statement listEphemeralUsers sends
listStatements(path) ==
  IF path \in {"not_initialized", "connect"} THEN <<>>
  ELSE << Stmt(<<"SELECT", "*", "FROM", "gk_list_ephemeral_users">>, <<>>) >>

\* the statement cleanupExpiredUsers sends
cleanupStatements(olderThanMinutes, path) ==
  IF path \in {"not_initialized", "connect"} THEN <<>>
  ELSE << Stmt(<<"SELECT", "*", "FROM", "gk_cleanup_expired_users", "$1">>,
               <<olderThanMinutes>>) >>

\* the statements healthCheck sends once it holds a connection
healthStatements(acq) ==
  IF acq = 0 THEN <<>>
  ELSE << SelectOne, Stmt(<<"SELECT", "*", "FROM", "gk_validate_setup">>, <<>>) >>

\* PostgresProvider.healthCheck: [status, acq, rel, path]; it never throws
healthCheck(open, fault, checksOk) ==
  IF ~open THEN [status |-> "unhealthy", acq |-> 0, rel |-> 0, path |-> "not_initialized"]
  ELSE IF fault = "connect"
    THEN [status |-> "unhealthy", acq |-> 0, rel |-> 0, path |-> "connect"]
  ELSE IF fault = "stmt"
    THEN [status |-> "unhealthy", acq |-> 1, rel |-> Releases("healthCheck", "statement"),
          path |-> "statement"]
  ELSE [status |-> IF checksOk THEN "healthy" ELSE "degraded", acq |-> 1,
        rel |-> Releases("healthCheck", "success"), path |-> "success"]

\* ------------------------------------------------------------------------
\* Provider registry and factory
\* ------------------------------------------------------------------------
DatabaseTypes == {"postgres", "oracle", "sqlserver", "mysql"}
\* factories are told apart by the provider they build
TestFactories == {"mockA", "mockB"}
NoFactory == ""
\* a Map: its keys in insertion order, and the value stored under each key
EmptyRegistry == [keys |-> <<>>, at |-> [t \in DatabaseTypes |-> NoFactory]]

isSupported(reg, type) == \E i \in 1..Len(reg.keys) : reg.keys[i] = type
getSupportedTypes(reg) == reg.keys
size(reg) == Len(reg.keys)
get(reg, type) == IF isSupported(reg, type) THEN reg.at[type] ELSE NoFactory

\* a register that keeps the factory a tag already has
registerFirstWins(reg, type, factory) ==
  IF isSupported(reg, type) THEN reg
  ELSE [keys |-> Append(reg.keys, type), at |-> [reg.at EXCEPT ![type] = factory]]

\* Map.set: a new key goes last, an existing key keeps its place
register(reg, type, factory) ==
  [keys |-> IF isSupported(reg, type) THEN reg.keys ELSE Append(reg.keys, type),
   at |-> [reg.at EXCEPT ![type] = factory]]

clear(reg) == EmptyRegistry

ProviderNotFound == ProviderError("PROVIDER_NOT_FOUND", FALSE)
\* create: [threw, err, instance]; an instance is named after its factory
create(reg, type) ==
  IF get(reg, type) = NoFactory
    THEN [threw |-> TRUE, err |-> ProviderNotFound, instance |-> ""]
    ELSE [threw |-> FALSE, err |-> NoErr, instance |-> get(reg, type)]

registerDatabaseProviders(reg) ==
  register(register(register(register(reg, "postgres", "PostgresProvider"),
                             "oracle", "OracleProvider"),
                    "sqlserver", "SqlServerProvider"),
           "mysql", "MySqlProvider")

createDatabaseProvider(reg, type) ==
  IF ~isSupported(reg, type)
    THEN [threw |-> TRUE, err |-> ProviderNotFound, instance |-> ""]
    ELSE create(reg, type)

\* ------------------------------------------------------------------------
\* Agent orchestrator
\* ------------------------------------------------------------------------
\* details.provider of a health result, when it has one
NoProvider == [type |-> "", version |-> ""]
PostgresTag == [type |-> "postgres", version |-> "1.0.0"]

\* a mapping that knows two outcomes only
agentHealthOutcomeStrict(h) ==
  [status |-> IF h.status = "healthy" THEN "ok" ELSE "down",
   provider |-> PostgresTag, acq |-> h.acq, rel |-> h.rel, health |-> h.status,
   path |-> h.path]

\* GatekeeperAgent.healthCheck once provider.healthCheck has returned h
agentHealthOutcome(h) ==
  [status |-> IF h.status = "healthy" THEN "ok"
              ELSE IF h.status = "degraded" THEN "degraded" ELSE "down",
   provider |-> PostgresTag, acq |-> h.acq, rel |-> h.rel, health |-> h.status,
   path |-> h.path]

\* GatekeeperAgent.healthCheck: [status, provider, acq, rel]; it never throws.
\* init: this.initialized; initFault: the initialize it awaits rejects
agentHealthCheck(init, open, initFault, fault, checksOk) ==
  IF ~init /\ initFault
    THEN [status |-> "down", provider |-> NoProvider, acq |-> 0, rel |-> 0,
          health |-> "", path |-> "init_failed"]
    ELSE CHOOSE out \in { agentHealthOutcome(h) :
                            h \in { healthCheck(init => open, fault, checksOk) } } : TRUE

SchemaMaxTtl == 1440

NoJob == [id |-> "", type |-> "", role |-> "", ttlMinutes |-> 0, sessionId |-> "",
          olderThanMinutes |-> NULL]
CreateSessionJobs ==
  { [NoJob EXCEPT !.id = i, !.type = "create_session", !.role = "app_read",
                  !.ttlMinutes = m] : i \in JobIds, m \in 0..(MaxTtl + 1) }
RevokeSessionJobs ==
  { [NoJob EXCEPT !.id = i, !.type = "revoke_session", !.sessionId = s] :
      i \in JobIds, s \in GeneratedSessionIds \cup {"ses_unknown"} }
CleanupJobs ==
  { [NoJob EXCEPT !.id = i, !.type = "cleanup", !.olderThanMinutes = m] :
      i \in JobIds, m \in {NULL, 0, 1} }
\* payloads that do not decode: no job id, or an unknown type tag
BadJobs == { [NoJob EXCEPT !.type = "cleanup"], [NoJob EXCEPT !.id = "j1", !.type = "drop_all"] }

\* a schema whose ttlMinutes has no lower bound
DecodesAnyTtl(job) ==
  /\ job.id # ""
  /\ \/ /\ job.type = "create_session"
        /\ job.role \in {"app_read", "app_write", "app_admin"}
        /\ job.ttlMinutes <= SchemaMaxTtl
     \/ job.type = "revoke_session" /\ job.sessionId # ""
     \/ job.type = "cleanup" /\ (job.olderThanMinutes = NULL \/ job.olderThanMinutes >= 0)

\* AgentJobSchema.parse succeeds
DecodesAsAgentJob(job) ==
  /\ job.id # ""
  /\ \/ /\ job.type = "create_session"
        /\ job.role \in {"app_read", "app_write", "app_admin"}
        /\ job.ttlMinutes >= 1 /\ job.ttlMinutes <= SchemaMaxTtl
     \/ job.type = "revoke_session" /\ job.sessionId # ""
     \/ job.type = "cleanup" /\ (job.olderThanMinutes = NULL \/ job.olderThanMinutes >= 0)

\* validateAgentJob: the decoded job with defaults applied (olderThanMinutes 5)
CleanupDefaultMinutes == 5
validateAgentJob(job) ==
  IF job.type = "cleanup" /\ job.olderThanMinutes = NULL
    THEN [job EXCEPT !.olderThanMinutes = CleanupDefaultMinutes]
    ELSE job

NoRes == [status |-> "", sessionId |-> "", username |-> "", dsn |-> <<>>,
          expiresAt |-> NULL, cleanedCount |-> NULL, code |-> "", retryable |-> FALSE]
FailedRes(code, retryable) ==
  [NoRes EXCEPT !.status = "failed", !.code = code, !.retryable = retryable]

NoEvent == [eventType |-> "", sessionId |-> "", username |-> "", jobId |-> "",
            cleanedCount |-> NULL, cleanedUsers |-> {}]

\* GatekeeperAgent.findUsernameForSession: the lookup is not implemented
findUsernameForSession(sessionId, sessions) == ""

\* the two catch branches of processJob
ValidationFailure == FailedRes("VALIDATION_ERROR", FALSE)
InternalFailure == FailedRes("INTERNAL_ERROR", TRUE)

ValidationError == [kind |-> "ValidationError", code |-> "VALIDATION_ERROR", retryable |-> FALSE]

\* what createSession's catch block rethrows for the error e it caught
CreateSessionRethrow(e) ==
  IF e.kind = "ValidationError" THEN e
  ELSE [kind |-> "DatabaseError", code |-> "DATABASE_ERROR", retryable |-> TRUE]

\* a catch block that reports every non-validation error as final
MapJobErrorFatal(e) ==
  IF e.kind = "ValidationError" THEN ValidationFailure
  ELSE FailedRes("INTERNAL_ERROR", FALSE)

\* processJob's catch block: thrown error -> job result
MapJobError(e) ==
  IF e.kind = "ValidationError" THEN ValidationFailure ELSE InternalFailure

\* Error.message of the errors the provider and the orchestrator construct
ErrorText(e) ==
  CASE e.code = "USER_EXISTS" -> <<"User", "x", "already", "exists">>
    [] e.code = "ROLE_NOT_FOUND" -> <<"Role", "x", "does", "not", "exist">>
    [] e.code = "USER_CREATION_FAILED" -> <<"Failed", "to", "create", "ephemeral", "user">>
    [] e.code = "NOT_INITIALIZED" -> <<"Provider", "not", "initialized">>
    [] e.code = "VALIDATION_ERROR" -> <<"TTL", "exceeds", "maximum", "allowed">>
    [] e.code = "DATABASE_ERROR" -> <<"Failed", "to", "create", "ephemeral", "session">>
    [] e.kind = "Error" -> MsgLost
    [] OTHER -> <<"Failed">>

\* the log record auditEvent writes: type, ids and the hash of the event data
auditRecordLog(type, sid, uname) ==
  [NoLog EXCEPT !.msg = "Audit event", !.sessionId = sid, !.username = uname]
agentLog(msg, sid, uname, jobId, error) ==
  [NoLog EXCEPT !.msg = msg, !.sessionId = sid, !.username = uname, !.jobId = jobId,
                !.error = error]

\* createSession after the provider call returned or threw r
createSessionOutcome(job, sid, uname, r) ==
  IF r.threw
    THEN [threw |-> TRUE, err |-> CreateSessionRethrow(r.err), res |-> NoRes,
          roles |-> r.roles, events |-> <<>>, acq |-> r.acq, rel |-> r.rel,
          perr |-> r.err,
          logs |-> << [agentLog("Creating ephemeral session via provider", sid, uname, "",
                                NoMsg) EXCEPT !.role = job.role] >> \o r.logs \o
                   << agentLog("Failed to create session via provider", "", "", job.id,
                               ErrorText(r.err)) >>]
    ELSE [threw |-> FALSE, err |-> NoErr,
          res |-> [NoRes EXCEPT !.status = "ready", !.sessionId = sid,
                                !.username = uname, !.dsn = r.dsn,
                                !.expiresAt = r.expiresAt],
          roles |-> r.roles,
          events |-> << [NoEvent EXCEPT !.eventType = "session.created",
                                        !.sessionId = sid, !.username = uname,
                                        !.jobId = job.id] >>,
          acq |-> r.acq, rel |-> r.rel, perr |-> NoErr,
          logs |-> << [agentLog("Creating ephemeral session via provider", sid, uname, "",
                                NoMsg) EXCEPT !.role = job.role] >> \o r.logs \o
                   << auditRecordLog("session.created", sid, uname),
                      agentLog("Session created successfully via provider", sid, uname,
                               "", NoMsg) >>]

\* a TTL check that also refuses the configured maximum itself
ExceedsMaxTtlInclusive(ttlMinutes) == ttlMinutes >= sessionMaxTtlMinutes

\* ttlMinutes > this.config.sessionMaxTtlMinutes
ExceedsMaxTtl(ttlMinutes) == ttlMinutes > sessionMaxTtlMinutes

\* GatekeeperAgent.createSession: [threw, err, res, roles, events, acq, rel, perr, logs]
\* perr is the provider's error, which the catch block logs and replaces
createSession(open, roles, t, job, sid, uname, pw, fault) ==
  IF ExceedsMaxTtl(job.ttlMinutes)
    THEN [threw |-> TRUE, err |-> ValidationError, res |-> NoRes, roles |-> roles,
          events |-> <<>>, acq |-> 0, rel |-> 0, perr |-> NoErr, logs |-> <<>>]
  ELSE
    CHOOSE out \in
      { createSessionOutcome(job, sid, uname, r) :
          r \in { createEphemeralUser(open, roles, t,
                    [username |-> uname, password |-> pw, role |-> job.role,
                     ttlMinutes |-> job.ttlMinutes, connectionLimit |-> 2], fault) } } : TRUE

\* a revokeSession that writes session.revoked whatever dropUser returned
revokeSessionOutcomeEager(job, username, r) ==
  IF r.threw
    THEN [res |-> FailedRes("REVOCATION_ERROR", TRUE), roles |-> r.roles,
          events |-> <<>>, acq |-> r.acq, rel |-> r.rel, perr |-> r.err,
          logs |-> << agentLog("Revoking session via provider", job.sessionId, "", "", NoMsg),
                      agentLog("Failed to revoke session via provider", job.sessionId, "",
                               "", ErrorText(r.err)) >>]
  ELSE [res |-> [NoRes EXCEPT !.status = IF r.ret THEN "revoked" ELSE "not_found"],
        roles |-> r.roles,
        events |-> << [NoEvent EXCEPT !.eventType = "session.revoked",
                                      !.sessionId = job.sessionId,
                                      !.username = username, !.jobId = job.id] >>,
        acq |-> r.acq, rel |-> r.rel, perr |-> NoErr,
        logs |-> << agentLog("Revoking session via provider", job.sessionId, "", "", NoMsg),
                    auditRecordLog("session.revoked", job.sessionId, username) >>]

\* revokeSession after dropUser returned or threw r
revokeSessionOutcome(job, username, r) ==
  IF r.threw
    THEN [res |-> FailedRes("REVOCATION_ERROR", TRUE), roles |-> r.roles,
          events |-> <<>>, acq |-> r.acq, rel |-> r.rel, perr |-> r.err,
          logs |-> << agentLog("Revoking session via provider", job.sessionId, "", "", NoMsg),
                      agentLog("Failed to revoke session via provider", job.sessionId, "",
                               "", ErrorText(r.err)) >>]
  ELSE IF r.ret
    THEN [res |-> [NoRes EXCEPT !.status = "revoked"], roles |-> r.roles,
          events |-> << [NoEvent EXCEPT !.eventType = "session.revoked",
                                        !.sessionId = job.sessionId,
                                        !.username = username, !.jobId = job.id] >>,
          acq |-> r.acq, rel |-> r.rel, perr |-> NoErr,
          logs |-> << agentLog("Revoking session via provider", job.sessionId, "", "", NoMsg),
                      auditRecordLog("session.revoked", job.sessionId, username),
                      agentLog("Session revoked successfully via provider", job.sessionId,
                               username, "", NoMsg) >>]
  ELSE [res |-> [NoRes EXCEPT !.status = "not_found"], roles |-> r.roles,
        events |-> <<>>, acq |-> r.acq, rel |-> r.rel, perr |-> NoErr,
        logs |-> << agentLog("Revoking session via provider", job.sessionId, "", "", NoMsg),
                    agentLog("User was already removed or not found", job.sessionId,
                             username, "", NoMsg) >>]

\* a revokeSession that calls dropUser without checking the lookup's answer
revokeSessionBlind(open, roles, job, sessions, fault) ==
  CHOOSE out \in
    { revokeSessionOutcome(job, findUsernameForSession(job.sessionId, sessions), r) :
        r \in { dropUser(open, roles,
                         findUsernameForSession(job.sessionId, sessions), fault) } } : TRUE

\* GatekeeperAgent.revokeSession
revokeSession(open, roles, job, sessions, fault) ==
  IF findUsernameForSession(job.sessionId, sessions) = ""
    THEN [res |-> [NoRes EXCEPT !.status = "not_found"], roles |-> roles,
          events |-> <<>>, acq |-> 0, rel |-> 0, perr |-> NoErr,
          logs |-> << agentLog("Revoking session via provider", job.sessionId, "", "", NoMsg),
                      agentLog("Session not found for revocation", job.sessionId, "", "",
                               NoMsg) >>]
  ELSE
    CHOOSE out \in
      { revokeSessionOutcome(job, findUsernameForSession(job.sessionId, sessions), r) :
          r \in { dropUser(open, roles,
                           findUsernameForSession(job.sessionId, sessions), fault) } } : TRUE

\* a cleanup that audits whether or not a row was dropped
cleanupEventsAlways(job, ok) ==
  << [NoEvent EXCEPT !.eventType = "sessions.cleaned", !.jobId = job.id,
                     !.cleanedCount = Cardinality(ok),
                     !.cleanedUsers = { row.username : row \in ok }] >>

\* the audit events of a cleanup whose rows with dropped=true are ok
cleanupEvents(job, ok) ==
  IF Cardinality(ok) > 0
    THEN << [NoEvent EXCEPT !.eventType = "sessions.cleaned", !.jobId = job.id,
                            !.cleanedCount = Cardinality(ok),
                            !.cleanedUsers = { row.username : row \in ok }] >>
    ELSE <<>>

\* a cleanup that counts every row the provider returned
cleanupOutcomeAll(job, r) ==
  IF r.threw
    THEN [res |-> [FailedRes("CLEANUP_ERROR", TRUE) EXCEPT !.cleanedCount = 0],
          roles |-> r.roles, events |-> <<>>, acq |-> r.acq, rel |-> r.rel, perr |-> r.err,
          rows |-> {},
          logs |-> << agentLog("Starting cleanup of expired sessions via provider", "", "",
                               "", NoMsg),
                      agentLog("Cleanup failed via provider", "", "", "",
                               ErrorText(r.err)) >>]
    ELSE [res |-> [NoRes EXCEPT !.status = "completed",
                     !.cleanedCount = Cardinality(r.rows)],
          roles |-> r.roles,
          events |-> cleanupEvents(job, { row \in r.rows : row.dropped }),
          acq |-> r.acq, rel |-> r.rel, perr |-> NoErr, rows |-> r.rows,
          logs |-> << agentLog("Starting cleanup of expired sessions via provider", "", "",
                               "", NoMsg) >> \o
                   (IF { row \in r.rows : row.dropped } # {}
                      THEN << auditRecordLog("sessions.cleaned", "", "") >> ELSE <<>>) \o
                   << agentLog("Cleanup completed via provider", "", "", "", NoMsg) >>]

\* cleanup after cleanupExpiredUsers returned or threw r
cleanupOutcome(job, r) ==
  IF r.threw
    THEN [res |-> [FailedRes("CLEANUP_ERROR", TRUE) EXCEPT !.cleanedCount = 0],
          roles |-> r.roles, events |-> <<>>, acq |-> r.acq, rel |-> r.rel, perr |-> r.err,
          rows |-> {},
          logs |-> << agentLog("Starting cleanup of expired sessions via provider", "", "",
                               "", NoMsg),
                      agentLog("Cleanup failed via provider", "", "", "",
                               ErrorText(r.err)) >>]
    ELSE [res |-> [NoRes EXCEPT !.status = "completed",
                     !.cleanedCount = Cardinality({ row \in r.rows : row.dropped })],
          roles |-> r.roles,
          events |-> cleanupEvents(job, { row \in r.rows : row.dropped }),
          acq |-> r.acq, rel |-> r.rel, perr |-> NoErr, rows |-> r.rows,
          logs |-> << agentLog("Starting cleanup of expired sessions via provider", "", "",
                               "", NoMsg) >> \o
                   (IF { row \in r.rows : row.dropped } # {}
                      THEN << auditRecordLog("sessions.cleaned", "", "") >> ELSE <<>>) \o
                   << agentLog("Cleanup completed via provider", "", "", "", NoMsg) >>]

\* GatekeeperAgent.cleanup
cleanup(open, roles, t, job, fault, failSet) ==
  CHOOSE out \in
    { cleanupOutcome(job, r) :
        r \in { cleanupExpiredUsers(open, roles, t, job.olderThanMinutes, fault, failSet) } } :
    TRUE

\* processJob's handling of what createSession returned or threw
createSessionResult(c) ==
  [res |-> IF c.threw THEN MapJobError(c.err) ELSE c.res, roles |-> c.roles,
   events |-> c.events, acq |-> c.acq, rel |-> c.rel, perr |-> c.perr,
   logs |-> IF c.threw
              THEN c.logs \o << agentLog("Job processing failed", "", "", "",
                                         ErrorText(c.err)) >>
              ELSE c.logs]

\* the try block of processJob, once the provider is initialized
routeJob(open, roles, t, payload, sessions, sid, uname, pw, fault, failSet) ==
  IF ~DecodesAsAgentJob(payload)
    THEN [res |-> ValidationFailure, roles |-> roles, events |-> <<>>, acq |-> 0, rel |-> 0,
          perr |-> NoErr,
          logs |-> << agentLog("Job processing failed", "", "", "",
                               <<"Invalid", "agent", "job">>) >>]
  ELSE
    LET job == validateAgentJob(payload) IN
      CASE payload.type = "create_session" ->
             CHOOSE out \in
               { createSessionResult(c) :
                   c \in { createSession(open, roles, t, job, sid, uname, pw, fault) } } : TRUE
        [] payload.type = "revoke_session" ->
             revokeSession(open, roles, job, sessions, fault)
        [] OTHER -> cleanup(open, roles, t, job, fault, failSet)

\* ------------------------------------------------------------------------
\* State machine
\* ------------------------------------------------------------------------
NoTrack == [name |-> "", preCount |-> 0, dirty |-> FALSE]
\* no pair is followed in this behaviour
Untracked == [name |-> "-", preCount |-> 0, dirty |-> FALSE]
NoLast == [op |-> "", name |-> "", path |-> "", connLimit |-> 0, older |-> NULL, threw |-> FALSE,
           err |-> NoErr, perr |-> NoErr, ret |-> FALSE, rows |-> {}, status |-> "",
           job |-> NoJob, res |-> NoRes, events |-> <<>>, prior |-> NoRes,
           acq |-> 0, rel |-> 0, outBefore |-> 0,
           tracked |-> FALSE, preCount |-> 0, dirty |-> FALSE, logs |-> <<>>,
           secret |-> "", provider |-> [type |-> "", version |-> ""],
           factory |-> "", replaced |-> "", instance |-> "", msg |-> <<>>,
           args |-> [password |-> "", valid_until |-> -1, role_name |-> ""],
           stmts |-> <<>>, health |-> "", checksOk |-> FALSE]

\* sha256 as a tagged value: equal digests only for equal contents
Sha256(content) == <<"sha256", content>>

\* the gatekeeper_audit table after the bootstrap script: its one INSERT
\* leaves prev_hash to its default and hashes the event type alone
SetupCompleted ==
  [id |-> 1, event_type |-> "setup.completed", session_id |-> "", username |-> "",
   event_data |-> <<"version", "1.0.0">>, prev_hash |-> NULL,
   event_hash |-> Sha256(<<"setup.completed">>)]
BootstrapAudit == << SetupCompleted >>

\* the processJob calls one orchestrator can have suspended at the same time
Procs == {1, 2}
\* the shutdown calls one orchestrator can have suspended at the same time
Closers == {1, 2}
\* pc: "ending" while pool.end() is awaited ("stale" once this.pool has been
\* replaced since), "closed" once close() has resolved; calls: the close()
\* invocations since the last successful initialize
NoClosing == [pc |-> [s \in Closers |-> "idle"], calls |-> 0]
\* pg_stat_activity for one login: its client backends by state
NoBackends == [active |-> 0, idle |-> 0]
NoActivity == [n \in UserNames |-> NoBackends]
\* one helper call in progress: pc is the statement it is at, todo the rows the
\* cleanup loop has still to visit, cur the login gk_drop_user was called for,
\* removed the logins its DROP ROLE statements removed (history)
NoSweep == [op |-> "", pc |-> "idle", job |-> NoJob, todo |-> {}, cur |-> "", rows |-> {},
            ret |-> FALSE, err |-> NoMsg, res |-> NoRes, removed |-> {}]
\* provider.initialize assigns a new Pool to this.pool
PoolReplaced(c) ==
  [c EXCEPT !.pc = [s \in Closers |-> IF c.pc[s] = "ending" THEN "stale" ELSE c.pc[s]]]
\* pc: the await the call is suspended at; pending: the role its open
\* transaction has created; committed, audited: what it has done so far
NoFlight == [pc |-> "idle", job |-> NoJob, sid |-> "", uname |-> "", pw |-> "",
             expiresAt |-> NULL, pending |-> NoRole, committed |-> FALSE,
             audited |-> FALSE, msg |-> NoMsg, perr |-> NoErr, raised |-> NoErr,
             res |-> NoRes]

ListedNames(roles) == { r.username : r \in gk_list_ephemeral_users(roles, 0) }

\* follow one createEphemeralUser / dropUser pair: the number of listed
\* principals before the create, and whether another principal changed since
TrackNext(created, before, after) ==
  IF track = Untracked THEN Untracked
  ELSE IF track = NoTrack
    THEN IF created # ""
           THEN [name |-> created, preCount |-> Cardinality(ListedNames(before)),
                 dirty |-> FALSE]
           ELSE NoTrack
  ELSE IF ~after[track.name].exists THEN NoTrack
  ELSE IF \E n \in UserNames \ {track.name} : after[n] # before[n]
    THEN [track EXCEPT !.dirty = TRUE]
  ELSE track

Init ==
  /\ sessionMaxTtlMinutes = MaxTtl
  /\ gatekeeper_audit = BootstrapAudit
  /\ inflight = [p \in Procs |-> NoFlight]
  /\ factories = registerDatabaseProviders(EmptyRegistry)
  /\ orphanPool = FALSE
  /\ closing = NoClosing
  /\ pg_stat_activity = NoActivity
  /\ sweep = [p \in Procs |-> NoSweep]
  /\ now = 0
  /\ pg_roles = [n \in UserNames |-> NoRole]
  /\ poolOpen = FALSE
  /\ checkedOut = 0
  /\ initialized = FALSE
  /\ auditLog = <<>>
  /\ jobsDone = 0
  /\ issued = {}
  /\ firstReady = [j \in JobIds |-> NoRes]
  /\ track = Untracked
  /\ last = NoLast

\* the same state, with one create/drop pair followed
InitPair ==
  /\ sessionMaxTtlMinutes = MaxTtl
  /\ gatekeeper_audit = BootstrapAudit
  /\ inflight = [p \in Procs |-> NoFlight]
  /\ factories = registerDatabaseProviders(EmptyRegistry)
  /\ orphanPool = FALSE
  /\ closing = NoClosing
  /\ pg_stat_activity = NoActivity
  /\ sweep = [p \in Procs |-> NoSweep]
  /\ now = 0
  /\ pg_roles = [n \in UserNames |-> NoRole]
  /\ poolOpen = FALSE
  /\ checkedOut = 0
  /\ initialized = FALSE
  /\ auditLog = <<>>
  /\ jobsDone = 0
  /\ issued = {}
  /\ firstReady = [j \in JobIds |-> NoRes]
  /\ track = NoTrack
  /\ last = NoLast

\* the database clock advances
Tick ==
  /\ UNCHANGED <<configVars, poolVars>>
  /\ now < MaxTime
  /\ now' = now + 1
  /\ last' = [NoLast EXCEPT !.op = "tick"]
  /\ UNCHANGED <<pg_roles, poolOpen, checkedOut, initialized, auditLog, jobsDone,
                 issued, firstReady, track>>

\* the user-management tool creates a permanent login through its helper
CreatePermanentUser(name, vu) ==
  /\ UNCHANGED <<configVars, poolVars>>
  /\ \E r \in { gk_create_permanent_user(pg_roles, name, "pw", vu, 3) } :
    /\ pg_roles' = r.roles
    /\ track' = TrackNext("", pg_roles, r.roles)
    /\ last' = [NoLast EXCEPT !.op = "gk_create_permanent_user", !.name = name,
                              !.threw = (r.err # NoMsg)]
    /\ UNCHANGED <<now, poolOpen, checkedOut, initialized, auditLog, jobsDone,
                   issued, firstReady>>

\* GatekeeperAgent.initialize with PostgresProvider.initialize
Initialize(fault) ==
  /\ UNCHANGED configVars
  /\ ~initialized
  /\ poolOpen' = TRUE
  /\ orphanPool' = (orphanPool \/ poolOpen)
  /\ closing' = [PoolReplaced(closing) EXCEPT !.calls = IF fault = "none" THEN 0 ELSE @]
  /\ initialized' = (fault = "none")
  /\ checkedOut' = checkedOut
  /\ last' = [NoLast EXCEPT !.op = "initialize", !.threw = (fault # "none"),
                            !.stmts = IF fault = "connect" THEN <<>> ELSE <<SelectOne>>,
                            !.err = IF fault = "none" THEN NoErr
                                    ELSE ProviderError("PROVIDER_INIT_ERROR", TRUE),
                            !.acq = IF fault = "connect" THEN 0 ELSE 1,
                            !.rel = IF fault = "connect" THEN 0 ELSE 1,
                            !.outBefore = checkedOut]
  /\ UNCHANGED <<now, pg_roles, auditLog, jobsDone, issued, firstReady, track>>

\* GatekeeperAgent.shutdown with PostgresProvider.close
Shutdown ==
  /\ UNCHANGED <<configVars, orphanPool>>
  /\ closing' = [closing EXCEPT !.calls = IF initialized THEN @ + 1 ELSE @]
  /\ poolOpen' = IF initialized THEN FALSE ELSE poolOpen
  /\ initialized' = FALSE
  /\ last' = [NoLast EXCEPT !.op = "shutdown"]
  /\ UNCHANGED <<now, pg_roles, checkedOut, auditLog, jobsDone, issued, firstReady, track>>

ProviderCreate(req, fault) ==
  /\ UNCHANGED <<configVars, poolVars>>
  /\ \E r \in { createEphemeralUser(poolOpen, pg_roles, now, req, fault) } :
    /\ pg_roles' = r.roles
    /\ checkedOut' = checkedOut + r.acq - r.rel
    /\ track' = TrackNext(r.username, pg_roles, r.roles)
    /\ last' = [NoLast EXCEPT !.op = "createEphemeralUser", !.name = req.username,
                              !.connLimit = req.connectionLimit, !.path = r.path,
                              !.msg = r.dbmsg,
                              !.stmts = createStatements(req, now + req.ttlMinutes, r.path),
                              !.args = [password |-> req.password,
                                        valid_until |-> r.expiresAt,
                                        role_name |-> req.role],
                              !.threw = r.threw, !.err = r.err,
                              !.acq = r.acq, !.rel = r.rel, !.outBefore = checkedOut]
    /\ UNCHANGED <<now, poolOpen, initialized, auditLog, jobsDone, issued, firstReady>>

ProviderDrop(name, fault) ==
  /\ UNCHANGED <<configVars, poolVars>>
  /\ \E r \in { dropUser(poolOpen, pg_roles, name, fault) } :
    /\ pg_roles' = r.roles
    /\ checkedOut' = checkedOut + r.acq - r.rel
    /\ track' = TrackNext("", pg_roles, r.roles)
    /\ last' = [NoLast EXCEPT !.op = "dropUser", !.name = name, !.path = r.path,
                              !.stmts = dropUserStatements(name, r.path),
                              !.threw = r.threw, !.err = r.err, !.ret = r.ret,
                              !.acq = r.acq, !.rel = r.rel, !.outBefore = checkedOut,
                              !.tracked = (r.ret /\ track.name = name),
                              !.preCount = IF r.ret /\ track.name = name
                                             THEN track.preCount ELSE 0,
                              !.dirty = r.ret /\ track.name = name /\ track.dirty]
    /\ UNCHANGED <<now, poolOpen, initialized, auditLog, jobsDone, issued, firstReady>>

ProviderList(fault) ==
  /\ UNCHANGED <<configVars, poolVars>>
  /\ \E r \in { listEphemeralUsers(poolOpen, pg_roles, now, fault) } :
    /\ checkedOut' = checkedOut + r.acq - r.rel
    /\ last' = [NoLast EXCEPT !.op = "listEphemeralUsers", !.path = r.path,
                              !.stmts = listStatements(r.path),
                              !.threw = r.threw, !.err = r.err, !.rows = r.rows,
                              !.acq = r.acq, !.rel = r.rel, !.outBefore = checkedOut]
    /\ UNCHANGED <<now, pg_roles, poolOpen, initialized, auditLog, jobsDone, issued,
                   firstReady, track>>

ProviderCleanup(olderThanMinutes, fault, failSet) ==
  /\ UNCHANGED <<configVars, poolVars>>
  /\ \E r \in { cleanupExpiredUsers(poolOpen, pg_roles, now, olderThanMinutes, fault, failSet) } :
    /\ pg_roles' = r.roles
    /\ checkedOut' = checkedOut + r.acq - r.rel
    /\ track' = TrackNext("", pg_roles, r.roles)
    /\ last' = [NoLast EXCEPT !.op = "cleanupExpiredUsers", !.older = olderThanMinutes,
                              !.path = r.path,
                              !.stmts = cleanupStatements(olderThanMinutes, r.path),
                              !.threw = r.threw, !.err = r.err, !.rows = r.rows,
                              !.acq = r.acq, !.rel = r.rel, !.outBefore = checkedOut]
    /\ UNCHANGED <<now, poolOpen, initialized, auditLog, jobsDone, issued, firstReady>>

ProviderHealth(fault, checksOk) ==
  /\ UNCHANGED <<configVars, poolVars>>
  /\ \E r \in { healthCheck(poolOpen, fault, checksOk) } :
    /\ checkedOut' = checkedOut + r.acq - r.rel
    /\ last' = [NoLast EXCEPT !.op = "healthCheck", !.status = r.status,
                              !.stmts = healthStatements(r.acq),
                              !.path = r.path, !.checksOk = checksOk,
                              !.acq = r.acq, !.rel = r.rel, !.outBefore = checkedOut]
    /\ UNCHANGED <<now, pg_roles, poolOpen, initialized, auditLog, jobsDone, issued,
                   firstReady, track>>

\* GatekeeperAgent.processJob
ProcessJob(payload, initFault, sid, uname, pw, fault, failSet) ==
  /\ UNCHANGED configVars
  /\ jobsDone < MaxJobs
  /\ jobsDone' = jobsDone + 1
  /\ orphanPool' = (orphanPool \/ (~initialized /\ poolOpen))
  /\ closing' = IF initialized THEN closing
                ELSE [PoolReplaced(closing) EXCEPT !.calls = IF initFault THEN @ ELSE 0]
  /\ IF ~initialized /\ initFault
       THEN \* initialize() rejects outside the try block: processJob rejects
            /\ poolOpen' = TRUE
            /\ last' = [NoLast EXCEPT !.op = "processJob", !.job = payload,
                                      !.threw = TRUE,
                                      !.err = ProviderError("PROVIDER_INIT_ERROR", TRUE),
                                      !.prior = IF payload.id \in JobIds
                                                  THEN firstReady[payload.id] ELSE NoRes,
                                      !.outBefore = checkedOut]
            /\ UNCHANGED <<now, pg_roles, checkedOut, initialized, auditLog, issued,
                           firstReady, track>>
       ELSE \E r \in { routeJob(initialized => poolOpen, pg_roles, now, payload, issued,
                                  sid, uname, pw, fault, failSet) } :
              /\ poolOpen' = (initialized => poolOpen)
              /\ initialized' = TRUE
              /\ pg_roles' = r.roles
              /\ checkedOut' = checkedOut + r.acq - r.rel
              /\ auditLog' = auditLog \o r.events
              /\ issued' = IF r.res.status = "ready" THEN issued \cup {<<r.res.sessionId, r.res.username>>}
                           ELSE issued
              /\ firstReady' = IF r.res.status = "ready" /\ firstReady[payload.id] = NoRes
                                 THEN [firstReady EXCEPT ![payload.id] = r.res]
                                 ELSE firstReady
              /\ track' = TrackNext(IF r.res.status = "ready" THEN r.res.username ELSE "", pg_roles, r.roles)
              /\ last' = [NoLast EXCEPT !.op = "processJob", !.job = payload,
                                        !.res = r.res, !.perr = r.perr,
                                        !.events = r.events,
                                        !.rows = IF payload.type = "cleanup"
                                                      /\ DecodesAsAgentJob(payload)
                                                   THEN r.rows ELSE {},
                                        !.logs =
                                          (IF DecodesAsAgentJob(payload)
                                             THEN << agentLog("Processing agent job", "",
                                                              "", payload.id, NoMsg) >>
                                             ELSE <<>>) \o r.logs,
                                        !.secret = pw,
                                        !.prior = IF payload.id \in JobIds
                                                    THEN firstReady[payload.id] ELSE NoRes,
                                        !.acq = r.acq, !.rel = r.rel,
                                        !.outBefore = checkedOut]
              /\ UNCHANGED now

\* names the direct callers of the provider use (the integration tests' style)
TestNames == {"gk_a1", "gk_bob_1"}
CreateRequests ==
  [username : TestNames \cup {"gk_"}, password : Passwords, role : RequestRoles,
   ttlMinutes : 0..MaxTtl, connectionLimit : ConnLimits]
PairRequests ==
  [username : GeneratedNames, password : Passwords, role : {"app_read"},
   ttlMinutes : {MaxTtl}, connectionLimit : {2}]

CallPermanent == CreatePermanentUser("gk_a1", NULL)
CallInitialize == \E f \in {"none", "connect"} : Initialize(f)
\* faults are injected into the requests that carry the orchestrator's settings
CallCreate ==
  \E req \in CreateRequests, f \in CreateFaults :
    /\ f # "none" => req.connectionLimit = 2 /\ req.role = "app_read" /\ req.ttlMinutes = MaxTtl
    /\ ProviderCreate(req, f)
CallDrop ==
  \E n \in TestNames \cup {"gk_", "bob", ""}, f \in StmtFaults \cup {"dropfail"} :
    ProviderDrop(n, f)
CallList == \E f \in StmtFaults : ProviderList(f)
CallCleanup ==
  \E m \in {0, 1}, f \in StmtFaults, fs \in SUBSET {"gk_a1"} : ProviderCleanup(m, f, fs)
CallHealth == \E f \in StmtFaults, ok \in BOOLEAN : ProviderHealth(f, ok)

InitFaults == IF initialized THEN {FALSE} ELSE BOOLEAN
JobCreate ==
  \E p \in CreateSessionJobs, i \in InitFaults, sid \in GeneratedSessionIds,
     u \in GeneratedNames, pw \in Passwords, f \in CreateFaults :
    ProcessJob(p, i, sid, u, pw, f, {})
JobRevoke ==
  \E p \in RevokeSessionJobs, i \in InitFaults : ProcessJob(p, i, "", "", "", "none", {})
JobCleanup ==
  \E p \in CleanupJobs, i \in InitFaults, f \in StmtFaults, fs \in SUBSET {"gk_a1"} :
    ProcessJob(p, i, "", "", "", f, fs)
JobBad == \E p \in BadJobs, i \in InitFaults : ProcessJob(p, i, "", "", "", "none", {})

\* the provider and the database helpers, called directly
Next ==
  \/ Tick
  \/ CallPermanent
  \/ CallInitialize
  \/ Shutdown
  \/ CallCreate
  \/ CallDrop
  \/ CallList
  \/ CallCleanup
  \/ CallHealth

Spec == Init /\ [][Next]_vars

\* the orchestrator processing jobs against the same database
NextAgent ==
  \/ Tick
  \/ CallPermanent
  \/ Shutdown
  \/ JobCreate
  \/ JobRevoke
  \/ JobCleanup
  \/ JobBad

SpecAgent == Init /\ [][NextAgent]_vars

\* create / drop / list on two listed names, one pair followed
PairCreate == \E req \in PairRequests : ProviderCreate(req, "none")
PairDrop == \E n \in GeneratedNames, f \in {"none", "dropfail"} : ProviderDrop(n, f)
PairCleanup == ProviderCleanup(0, "none", {})
NextPair ==
  \/ Tick
  \/ Initialize("none")
  \/ PairCreate
  \/ PairDrop
  \/ ProviderList("none")
  \/ PairCleanup

SpecPair == InitPair /\ [][NextPair]_vars

\* ------------------------------------------------------------------------
\* create_session jobs at the edges of the configured maximum TTL
\* ------------------------------------------------------------------------
\* values of SESSION_MAX_TTL_MINUTES
ConfiguredMaxTtls == {1, MaxTtl + 1, SchemaMaxTtl, SchemaMaxTtl + 1}

InitTtl ==
  /\ sessionMaxTtlMinutes \in ConfiguredMaxTtls
  /\ gatekeeper_audit = BootstrapAudit
  /\ inflight = [p \in Procs |-> NoFlight]
  /\ factories = registerDatabaseProviders(EmptyRegistry)
  /\ orphanPool = FALSE
  /\ closing = NoClosing
  /\ pg_stat_activity = NoActivity
  /\ sweep = [p \in Procs |-> NoSweep]
  /\ now = 0
  /\ pg_roles = [n \in UserNames |-> NoRole]
  /\ poolOpen = FALSE
  /\ checkedOut = 0
  /\ initialized = FALSE
  /\ auditLog = <<>>
  /\ jobsDone = 0
  /\ issued = {}
  /\ firstReady = [j \in JobIds |-> NoRes]
  /\ track = Untracked
  /\ last = NoLast

JobTtl ==
  \E i \in JobIds, m \in {0, sessionMaxTtlMinutes, sessionMaxTtlMinutes + 1},
     u \in GeneratedNames, f \in {"none", "connect"} :
    ProcessJob([NoJob EXCEPT !.id = i, !.type = "create_session", !.role = "app_read",
                             !.ttlMinutes = m], FALSE, "ses_c3", u, "pw", f, {})

NextTtl ==
  \/ Tick
  \/ Shutdown
  \/ JobTtl

SpecTtl == InitTtl /\ [][NextTtl]_vars

\* ------------------------------------------------------------------------
\* processJob calls that interleave at their awaits (create_session)
\* ------------------------------------------------------------------------
\* every step of a suspended call leaves these alone
ConcFrame ==
  UNCHANGED <<now, track, sessionMaxTtlMinutes, gatekeeper_audit, factories,
              pg_stat_activity, sweep>>
\* every step but the one that calls initialize leaves the pools alone
PoolFrame == UNCHANGED poolVars
Suspend == last' = [NoLast EXCEPT !.op = "await"]

\* processJob returns res to its caller (or rejects with raised)
Settle(p, res, raised, perr, events) ==
  /\ inflight' = [inflight EXCEPT ![p].pc = "done", ![p].res = res,
                                  ![p].raised = raised, ![p].perr = perr,
                                  ![p].pending = NoRole]
  /\ issued' = IF res.status = "ready" THEN issued \cup {<<res.sessionId, res.username>>}
               ELSE issued
  /\ firstReady' = IF res.status = "ready" /\ firstReady[inflight[p].job.id] = NoRes
                     THEN [firstReady EXCEPT ![inflight[p].job.id] = res]
                     ELSE firstReady
  /\ last' = [NoLast EXCEPT !.op = "processJob", !.job = inflight[p].job, !.res = res,
                            !.threw = (raised # NoErr), !.err = raised, !.perr = perr,
                            !.events = events,
                            !.prior = firstReady[inflight[p].job.id],
                            !.outBefore = checkedOut]

\* createEphemeralUser throws perr: createSession's catch, then processJob's
SettleProviderError(p, perr) ==
  Settle(p, MapJobError(CreateSessionRethrow(perr)), NoErr, perr, <<>>)

\* processJob from validateAgentJob up to the await of pool.connect()
RouteCreate(p, f) ==
  IF ~DecodesAsAgentJob(f.job) \/ ExceedsMaxTtl(f.job.ttlMinutes)
    THEN /\ inflight' = [inflight EXCEPT ![p] = [f EXCEPT !.pc = "done",
                                                         !.res = ValidationFailure]]
         /\ last' = [NoLast EXCEPT !.op = "processJob", !.job = f.job,
                                   !.res = ValidationFailure,
                                   !.prior = firstReady[f.job.id],
                                   !.outBefore = checkedOut]
    ELSE /\ inflight' = [inflight EXCEPT ![p] = [f EXCEPT !.pc = "connect"]]
         /\ Suspend

\* processJob is called: it runs up to its first await
StartJob(p, payload, sid, uname, pw) ==
  /\ inflight[p].pc = "idle"
  /\ jobsDone < MaxJobs
  /\ jobsDone' = jobsDone + 1
  /\ poolOpen' = (initialized => poolOpen)
  /\ orphanPool' = (orphanPool \/ (~initialized /\ poolOpen))
  /\ closing' = IF initialized THEN closing ELSE PoolReplaced(closing)
  /\ IF ~initialized
       THEN /\ inflight' = [inflight EXCEPT ![p] =
                              [NoFlight EXCEPT !.pc = "init", !.job = payload, !.sid = sid,
                                               !.uname = uname, !.pw = pw]]
            /\ Suspend
       ELSE RouteCreate(p, [NoFlight EXCEPT !.job = payload, !.sid = sid,
                                            !.uname = uname, !.pw = pw])
  /\ UNCHANGED <<pg_roles, checkedOut, initialized, auditLog, issued, firstReady>>
  /\ ConcFrame

\* provider.initialize settles: the probe connection is acquired and released
InitSettles(p, fault) ==
  /\ inflight[p].pc = "init"
  /\ IF fault
       THEN /\ Settle(p, NoRes, ProviderError("PROVIDER_INIT_ERROR", TRUE), NoErr, <<>>)
            /\ UNCHANGED initialized
       ELSE /\ initialized' = TRUE
            /\ RouteCreate(p, inflight[p])
            /\ UNCHANGED <<issued, firstReady>>
  /\ closing' = [closing EXCEPT !.calls = IF fault THEN @ ELSE 0]
  /\ UNCHANGED <<pg_roles, poolOpen, checkedOut, auditLog, jobsDone, orphanPool>>
  /\ ConcFrame

\* pool.connect() settles; expiresAt is computed and BEGIN is sent
Connect(p, fault) ==
  /\ inflight[p].pc = "connect"
  /\ IF fault
       THEN /\ SettleProviderError(p, DriverError)
            /\ UNCHANGED checkedOut
       ELSE /\ checkedOut' = checkedOut + 1
            /\ inflight' = [inflight EXCEPT ![p].pc = "begin",
                              ![p].expiresAt = now + inflight[p].job.ttlMinutes]
            /\ Suspend
            /\ UNCHANGED <<issued, firstReady>>
  /\ UNCHANGED <<pg_roles, poolOpen, initialized, auditLog, jobsDone>>
  /\ ConcFrame
  /\ PoolFrame

\* BEGIN settles; it is outside the inner try, so a failure skips ROLLBACK
Begin(p, fault) ==
  /\ inflight[p].pc = "begin"
  /\ IF fault
       THEN /\ SettleProviderError(p, MapCreateError(MsgLost))
            /\ checkedOut' = checkedOut - Releases("createEphemeralUser", "begin")
       ELSE /\ inflight' = [inflight EXCEPT ![p].pc = "helper"]
            /\ Suspend
            /\ UNCHANGED <<checkedOut, issued, firstReady>>
  /\ UNCHANGED <<pg_roles, poolOpen, initialized, auditLog, jobsDone>>
  /\ ConcFrame
  /\ PoolFrame

\* CREATE ROLE waits while another open transaction has created the name
WaitsFor(p) ==
  { q \in Procs \ {p} :
      inflight[q].pending.exists /\ inflight[q].uname = inflight[p].uname }

\* SELECT gk_create_ephemeral_user(...) settles inside the open transaction
Helper(p, fault) ==
  /\ inflight[p].pc = "helper"
  /\ WaitsFor(p) = {}
  /\ \E h \in { gk_create_ephemeral_user(pg_roles, now, inflight[p].uname, inflight[p].pw,
                                         inflight[p].expiresAt, inflight[p].job.role, 2) } :
       inflight' =
         IF fault THEN [inflight EXCEPT ![p].pc = "rollback", ![p].msg = MsgLost]
         ELSE IF h.err # NoMsg
           THEN [inflight EXCEPT ![p].pc = "rollback", ![p].msg = h.err]
         ELSE [inflight EXCEPT ![p].pc = "commit",
                               ![p].pending = h.roles[inflight[p].uname]]
  /\ Suspend
  /\ UNCHANGED <<pg_roles, poolOpen, checkedOut, initialized, auditLog, jobsDone, issued,
                 firstReady>>
  /\ ConcFrame
  /\ PoolFrame

\* COMMIT settles: the role becomes visible to every other session
Commit(p, fault) ==
  /\ inflight[p].pc = "commit"
  /\ IF fault
       THEN /\ inflight' = [inflight EXCEPT ![p].pc = "rollback", ![p].msg = MsgLost]
            /\ UNCHANGED pg_roles
       ELSE /\ pg_roles' = [pg_roles EXCEPT ![inflight[p].uname] = inflight[p].pending]
            /\ inflight' = [inflight EXCEPT ![p].pc = "release", ![p].committed = TRUE,
                                            ![p].pending = NoRole]
  /\ Suspend
  /\ UNCHANGED <<poolOpen, checkedOut, initialized, auditLog, jobsDone, issued, firstReady>>
  /\ ConcFrame
  /\ PoolFrame

\* ROLLBACK settles; the caught error (or ROLLBACK's own) reaches the outer
\* catch, the finally block releases the connection
Rollback(p, fault) ==
  /\ inflight[p].pc = "rollback"
  /\ SettleProviderError(p, MapCreateError(IF fault THEN MsgLost ELSE inflight[p].msg))
  /\ checkedOut' = checkedOut - Releases("createEphemeralUser",
                                         IF fault THEN "rollback_failed" ELSE "raised")
  /\ UNCHANGED <<pg_roles, poolOpen, initialized, auditLog, jobsDone>>
  /\ ConcFrame
  /\ PoolFrame

\* SELECT version() settles; the result is built, the connection released
Release(p) ==
  /\ inflight[p].pc = "release"
  /\ checkedOut' = checkedOut - Releases("createEphemeralUser", "success")
  /\ inflight' = [inflight EXCEPT ![p].pc = "audit"]
  /\ Suspend
  /\ UNCHANGED <<pg_roles, poolOpen, initialized, auditLog, jobsDone, issued, firstReady>>
  /\ ConcFrame
  /\ PoolFrame

\* createSession resumes: auditEvent, then the ready result is returned
AuditSession(p) ==
  /\ inflight[p].pc = "audit"
  /\ auditLog' = auditLog \o
       << [NoEvent EXCEPT !.eventType = "session.created", !.sessionId = inflight[p].sid,
                          !.username = inflight[p].uname, !.jobId = inflight[p].job.id] >>
  /\ inflight' = [inflight EXCEPT ![p].pc = "return", ![p].audited = TRUE]
  /\ Suspend
  /\ UNCHANGED <<pg_roles, poolOpen, checkedOut, initialized, jobsDone, issued, firstReady>>
  /\ ConcFrame
  /\ PoolFrame

\* a createSession in which a failed audit step fails the job
ReturnAuditFatal(p) ==
  /\ inflight[p].pc = "return"
  /\ IF inflight[p].job.id = "j2"
       THEN Settle(p, InternalFailure, NoErr, NoErr, << >>)
       ELSE Settle(p, [NoRes EXCEPT !.status = "ready", !.sessionId = inflight[p].sid,
                                  !.username = inflight[p].uname,
                                  !.dsn = GenerateDsn(inflight[p].uname, inflight[p].pw),
                                  !.expiresAt = inflight[p].expiresAt],
                   NoErr, NoErr, << >>)
  /\ UNCHANGED <<pg_roles, poolOpen, checkedOut, initialized, auditLog, jobsDone>>
  /\ ConcFrame
  /\ PoolFrame

\* the logger.info after auditEvent, then createSession's return
ReturnReady(p) ==
  /\ inflight[p].pc = "return"
  /\ Settle(p, [NoRes EXCEPT !.status = "ready", !.sessionId = inflight[p].sid,
                             !.username = inflight[p].uname,
                             !.dsn = GenerateDsn(inflight[p].uname, inflight[p].pw),
                             !.expiresAt = inflight[p].expiresAt],
            NoErr, NoErr, << >>)
  /\ UNCHANGED <<pg_roles, poolOpen, checkedOut, initialized, auditLog, jobsDone>>
  /\ ConcFrame
  /\ PoolFrame

\* the database clock advances while calls are suspended
ConcTick ==
  /\ now < MaxTime
  /\ now' = now + 1
  /\ Suspend
  /\ UNCHANGED <<pg_roles, poolOpen, checkedOut, initialized, auditLog, jobsDone, issued,
                 firstReady, track, sessionMaxTtlMinutes, gatekeeper_audit, inflight,
                 factories, orphanPool, closing, pg_stat_activity, sweep>>

ConcSid(p) == IF p = 1 THEN "ses_c3" ELSE "ses_d4"
ConcJobId(p) == IF p = 1 THEN "j1" ELSE "j2"
ConcStart ==
  \E p \in Procs, u \in GeneratedNames, pw \in Passwords :
    \E job \in { j \in CreateSessionJobs : j.id = ConcJobId(p) } :
      StartJob(p, job, ConcSid(p), u, pw)
ConcInit == \E p \in Procs, f \in BOOLEAN : InitSettles(p, f)
ConcConnect == \E p \in Procs, f \in BOOLEAN : Connect(p, f)
ConcBegin == \E p \in Procs, f \in BOOLEAN : Begin(p, f)
ConcHelper == \E p \in Procs, f \in BOOLEAN : Helper(p, f)
ConcCommit == \E p \in Procs, f \in BOOLEAN : Commit(p, f)
ConcRollback == \E p \in Procs, f \in BOOLEAN : Rollback(p, f)
ConcRelease == \E p \in Procs : Release(p)
ConcAudit == \E p \in Procs : AuditSession(p)
ConcReturn == \E p \in Procs : ReturnReady(p)

NextConc ==
  \/ ConcTick
  \/ ConcStart
  \/ ConcInit
  \/ ConcConnect
  \/ ConcBegin
  \/ ConcHelper
  \/ ConcCommit
  \/ ConcRollback
  \/ ConcRelease
  \/ ConcAudit
  \/ ConcReturn

SpecConc == Init /\ [][NextConc]_vars

\* ------------------------------------------------------------------------
\* the orchestrator's life cycle: shutdown calls that interleave at their
\* awaits with each other, with jobs and with health checks
\* ------------------------------------------------------------------------
\* shutdown is called: it runs up to the await of pool.end() in close()
ShutdownStart(s) ==
  /\ closing.pc[s] = "idle"
  /\ IF initialized
       THEN /\ closing' = [closing EXCEPT !.calls = @ + 1,
                                          !.pc[s] = IF poolOpen THEN "ending" ELSE "closed"]
            /\ last' = [NoLast EXCEPT !.op = "await"]
       ELSE /\ closing' = closing
            /\ last' = [NoLast EXCEPT !.op = "shutdown"]
  /\ UNCHANGED <<now, pg_roles, poolOpen, checkedOut, initialized, auditLog, jobsDone,
                 issued, firstReady, track, orphanPool, configVars>>

\* pool.end() settles and close() clears this.pool
EndSettles(s) ==
  /\ closing.pc[s] \in {"ending", "stale"}
  /\ poolOpen' = FALSE
  /\ orphanPool' = (orphanPool \/ (closing.pc[s] = "stale" /\ poolOpen))
  /\ closing' = [closing EXCEPT !.pc[s] = "closed"]
  /\ last' = [NoLast EXCEPT !.op = "await"]
  /\ UNCHANGED <<now, pg_roles, checkedOut, initialized, auditLog, jobsDone, issued,
                 firstReady, track, configVars>>

\* shutdown resumes after close(): it clears this.initialized and returns
ShutdownFinish(s) ==
  /\ closing.pc[s] = "closed"
  /\ initialized' = FALSE
  /\ closing' = [closing EXCEPT !.pc[s] = "idle"]
  /\ last' = [NoLast EXCEPT !.op = "shutdown"]
  /\ UNCHANGED <<now, pg_roles, poolOpen, checkedOut, auditLog, jobsDone, issued,
                 firstReady, track, orphanPool, configVars>>

\* GatekeeperAgent.healthCheck
AgentHealth(initFault, fault, checksOk) ==
  /\ UNCHANGED configVars
  /\ orphanPool' = (orphanPool \/ (~initialized /\ poolOpen))
  /\ closing' = IF initialized THEN closing
                ELSE [PoolReplaced(closing) EXCEPT !.calls = IF initFault THEN @ ELSE 0]
  /\ poolOpen' = (initialized => poolOpen)
  /\ initialized' = (initialized \/ ~initFault)
  /\ \E r \in { agentHealthCheck(initialized, poolOpen, initFault, fault, checksOk) } :
       /\ checkedOut' = checkedOut + r.acq - r.rel
       /\ last' = [NoLast EXCEPT !.op = "agentHealthCheck", !.status = r.status,
                                 !.health = r.health, !.path = r.path,
                                 !.checksOk = checksOk,
                                 !.provider = r.provider, !.acq = r.acq, !.rel = r.rel,
                                 !.outBefore = checkedOut]
  /\ UNCHANGED <<now, pg_roles, auditLog, jobsDone, issued, firstReady, track>>

LifeShutdownStart == \E s \in Closers : ShutdownStart(s)
LifeEndSettles == \E s \in Closers : EndSettles(s)
LifeShutdownFinish == \E s \in Closers : ShutdownFinish(s)
LifeHealth ==
  \E i \in InitFaults, f \in StmtFaults, ok \in BOOLEAN : AgentHealth(i, f, ok)
LifeJob ==
  \E id \in JobIds, i \in InitFaults, u \in GeneratedNames, f \in {"none", "connect"} :
    ProcessJob([NoJob EXCEPT !.id = id, !.type = "create_session", !.role = "app_read",
                             !.ttlMinutes = 1], i, "ses_c3", u, "pw", f, {})

NextLife ==
  \/ Tick
  \/ LifeShutdownStart
  \/ LifeEndSettles
  \/ LifeShutdownFinish
  \/ LifeHealth
  \/ LifeJob

SpecLife == Init /\ [][NextLife]_vars

\* ------------------------------------------------------------------------
\* the process-wide registry, from its construction on
\* ------------------------------------------------------------------------
RegistryFrame ==
  UNCHANGED <<now, pg_roles, poolOpen, checkedOut, initialized, auditLog, jobsDone,
              issued, firstReady, track, sessionMaxTtlMinutes, gatekeeper_audit,
              inflight, poolVars, pg_stat_activity, sweep>>

InitRegistry ==
  /\ sessionMaxTtlMinutes = MaxTtl
  /\ gatekeeper_audit = BootstrapAudit
  /\ inflight = [p \in Procs |-> NoFlight]
  /\ factories = EmptyRegistry
  /\ orphanPool = FALSE
  /\ closing = NoClosing
  /\ pg_stat_activity = NoActivity
  /\ sweep = [p \in Procs |-> NoSweep]
  /\ now = 0
  /\ pg_roles = [n \in UserNames |-> NoRole]
  /\ poolOpen = FALSE
  /\ checkedOut = 0
  /\ initialized = FALSE
  /\ auditLog = <<>>
  /\ jobsDone = 0
  /\ issued = {}
  /\ firstReady = [j \in JobIds |-> NoRes]
  /\ track = Untracked
  /\ last = NoLast

RegistryRegister(type, factory) ==
  /\ factories' = register(factories, type, factory)
  /\ last' = [NoLast EXCEPT !.op = "register", !.name = type, !.factory = factory,
                            !.replaced = get(factories, type)]
  /\ RegistryFrame

RegistryClear ==
  /\ factories' = clear(factories)
  /\ last' = [NoLast EXCEPT !.op = "clear"]
  /\ RegistryFrame

RegistryCreate(type) ==
  /\ \E r \in { create(factories, type) } :
       last' = [NoLast EXCEPT !.op = "create", !.name = type, !.threw = r.threw,
                              !.err = r.err, !.instance = r.instance]
  /\ UNCHANGED factories
  /\ RegistryFrame

\* new GatekeeperAgent(config) without config.provider
ConstructAgent(type) ==
  /\ factories' = registerDatabaseProviders(factories)
  /\ \E r \in { createDatabaseProvider(registerDatabaseProviders(factories), type) } :
       last' = [NoLast EXCEPT !.op = "construct", !.name = type, !.threw = r.threw,
                              !.err = r.err, !.instance = r.instance,
                              !.ret = isSupported(factories, type)]
  /\ RegistryFrame

CallRegister == \E t \in DatabaseTypes, f \in TestFactories : RegistryRegister(t, f)
CallCreateProvider == \E t \in DatabaseTypes : RegistryCreate(t)
CallConstruct == \E t \in DatabaseTypes : ConstructAgent(t)

NextRegistry ==
  \/ CallRegister
  \/ RegistryClear
  \/ CallCreateProvider
  \/ CallConstruct

SpecRegistry == InitRegistry /\ [][NextRegistry]_vars

\* ------------------------------------------------------------------------
\* the helpers called directly, as the integration tests' admin client does
\* ------------------------------------------------------------------------
SqlNames ==
  {"", "invalid_user", "gk_", "gk_user-with-hyphens", "gk_user.with.dots",
   "gk_user with spaces", LongName, "gk_a1"}

SqlCreate(username, password, valid_until, role_name, connection_limit) ==
  /\ \E r \in { gk_create_ephemeral_user(pg_roles, now, username, password, valid_until,
                                          role_name, connection_limit) } :
       /\ pg_roles' = r.roles
       /\ last' = [NoLast EXCEPT !.op = "gk_create_ephemeral_user", !.name = username,
                                 !.connLimit = connection_limit, !.msg = r.err,
                                 !.args = [password |-> password,
                                           valid_until |-> valid_until,
                                           role_name |-> role_name]]
  /\ UNCHANGED <<now, poolOpen, checkedOut, initialized, auditLog, jobsDone, issued,
                 firstReady, track, configVars, poolVars>>

SqlDrop(username) ==
  /\ \E r \in { gk_drop_user(pg_roles, username, FALSE) } :
       /\ pg_roles' = r.roles
       /\ last' = [NoLast EXCEPT !.op = "gk_drop_user", !.name = username, !.msg = r.err,
                                 !.ret = r.ret]
  /\ UNCHANGED <<now, poolOpen, checkedOut, initialized, auditLog, jobsDone, issued,
                 firstReady, track, configVars, poolVars>>

CallSqlCreate ==
  \E n \in SqlNames, pw \in {"", "pw"}, vu \in 0..(MaxTime + 1), r \in RequestRoles :
    SqlCreate(n, pw, vu, r, 1)
CallSqlDrop == \E n \in {"gk_a1", "gk_"} : SqlDrop(n)

NextSql ==
  \/ Tick
  \/ CallSqlCreate
  \/ CallSqlDrop

SpecSql == Init /\ [][NextSql]_vars

\* ------------------------------------------------------------------------
\* two admin sessions run the drop and cleanup helpers at the same time,
\* statement by statement, while clients are connected with the logins
\* ------------------------------------------------------------------------
RaceNames == {"gk_a1", "gk_b2"}
MsgRoleGone == <<"role", "x", "does", "not", "exist">>

\* gk_drop_user up to its existence check: the exception it raises, or whether
\* it goes on to the connections
DropUserGate(roles, username) ==
  IF username = "" THEN [err |-> MsgEmptyUser, go |-> FALSE]
  ELSE IF ~MatchesCreatePattern(username) THEN [err |-> MsgDropPattern, go |-> FALSE]
  ELSE [err |-> NoMsg, go |-> RoleExists(roles, username)]

\* count(*) FROM pg_stat_activity WHERE usename = username AND state = 'active'
ActiveConnections(act, username) == act[username].active

\* IF active_connections > 0: pg_terminate_backend for every backend of the login
TerminateBackends(act, username) ==
  IF ActiveConnections(act, username) > 0 THEN [act EXCEPT ![username] = NoBackends]
  ELSE act

\* DROP ROLE IF EXISTS: an absent role is no error
DropRoleIfExists(roles, username, fails) ==
  IF fails THEN [err |-> MsgDependent, roles |-> roles]
  ELSE [err |-> NoMsg, roles |-> [roles EXCEPT ![username] = NoRole]]

\* EXECUTE format('DROP ROLE %I', username); fails: the role owns objects
DropRole(roles, username, fails) ==
  IF ~RoleExists(roles, username) THEN [err |-> MsgRoleGone, roles |-> roles]
  ELSE IF fails THEN [err |-> MsgDependent, roles |-> roles]
  ELSE [err |-> NoMsg, roles |-> [roles EXCEPT ![username] = NoRole]]

\* the row cleanupExpiredUsers makes of a row of gk_cleanup_expired_users
CleanupRow(r) ==
  [username |-> r.username, wasExpired |-> r.was_expired, dropped |-> r.dropped,
   errorMessage |-> r.error_message]

\* gk_drop_user has returned dropped, or raised err, in call s: the cleanup
\* loop returns its row and goes on, dropUser has its answer
DropSettled(s, dropped, err, gone) ==
  IF s.op = "cleanup"
    THEN [s EXCEPT !.pc = "loop", !.removed = @ \cup gone,
                   !.rows = @ \cup { [username |-> s.cur, was_expired |-> TRUE,
                                      dropped |-> dropped, error_message |-> err] }]
    ELSE [s EXCEPT !.pc = "return", !.ret = dropped, !.err = err, !.removed = @ \cup gone]

RaceFrame ==
  UNCHANGED <<poolOpen, checkedOut, initialized, issued, firstReady, track,
              sessionMaxTtlMinutes, gatekeeper_audit, inflight, factories, poolVars>>

\* both helpers' logins exist, created earlier with the orchestrator's cap of 2
InitRace ==
  /\ sessionMaxTtlMinutes = MaxTtl
  /\ gatekeeper_audit = BootstrapAudit
  /\ inflight = [p \in Procs |-> NoFlight]
  /\ factories = registerDatabaseProviders(EmptyRegistry)
  /\ orphanPool = FALSE
  /\ closing = NoClosing
  /\ pg_stat_activity = NoActivity
  /\ sweep = [p \in Procs |-> NoSweep]
  /\ now = 0
  /\ pg_roles = [n \in UserNames |->
                   IF n \in RaceNames
                     THEN [exists |-> TRUE, validUntil |-> 1, connLimit |-> 2,
                           member |-> "app_read", helper |-> "ephemeral"]
                     ELSE NoRole]
  /\ poolOpen = TRUE
  /\ checkedOut = 0
  /\ initialized = TRUE
  /\ auditLog = <<>>
  /\ jobsDone = 0
  /\ issued = {}
  /\ firstReady = [j \in JobIds |-> NoRes]
  /\ track = NoTrack
  /\ last = NoLast

\* a client logs in: the role exists, is not expired and is under its cap
ClientConnect(n) ==
  /\ pg_roles[n].exists
  /\ pg_roles[n].validUntil = NULL \/ now < pg_roles[n].validUntil
  /\ pg_stat_activity[n].active + pg_stat_activity[n].idle < pg_roles[n].connLimit
  /\ pg_stat_activity' = [pg_stat_activity EXCEPT ![n].idle = @ + 1]
  /\ Suspend
  /\ UNCHANGED <<now, pg_roles, auditLog, jobsDone, sweep>>
  /\ RaceFrame

\* a connected client starts a statement
ClientQuery(n) ==
  /\ pg_stat_activity[n].idle > 0
  /\ pg_stat_activity' = [pg_stat_activity EXCEPT ![n].idle = @ - 1, ![n].active = @ + 1]
  /\ Suspend
  /\ UNCHANGED <<now, pg_roles, auditLog, jobsDone, sweep>>
  /\ RaceFrame

\* a cleanup job reaches gk_cleanup_expired_users: the FOR query is opened
StartCleanup(p, payload) ==
  /\ sweep[p].pc = "idle"
  /\ initialized /\ poolOpen
  /\ \E job \in { validateAgentJob(payload) } :
       sweep' = [sweep EXCEPT ![p] =
                   [NoSweep EXCEPT !.op = "cleanup", !.pc = "loop", !.job = job,
                                   !.todo = CleanupCandidates(pg_roles, now,
                                                              job.olderThanMinutes)]]
  /\ jobsDone' = jobsDone + 1
  /\ Suspend
  /\ UNCHANGED <<now, pg_roles, auditLog, pg_stat_activity>>
  /\ RaceFrame

\* dropUser(username) reaches gk_drop_user
StartDrop(p, username) ==
  /\ sweep[p].pc = "idle"
  /\ poolOpen
  /\ sweep' = [sweep EXCEPT ![p] = [NoSweep EXCEPT !.op = "dropUser", !.pc = "check",
                                                    !.cur = username]]
  /\ Suspend
  /\ UNCHANGED <<now, pg_roles, auditLog, jobsDone, pg_stat_activity>>
  /\ RaceFrame

\* the cleanup loop fetches its next row and calls gk_drop_user, or ends
SweepNext(p) ==
  /\ sweep[p].pc = "loop"
  /\ IF sweep[p].todo = {}
       THEN sweep' = [sweep EXCEPT ![p].pc = "return"]
       ELSE \E n \in sweep[p].todo :
              sweep' = [sweep EXCEPT ![p].pc = "check", ![p].cur = n, ![p].todo = @ \ {n}]
  /\ Suspend
  /\ UNCHANGED <<now, pg_roles, auditLog, jobsDone, pg_stat_activity>>
  /\ RaceFrame

\* gk_drop_user validates its argument and looks the role up
DropCheck(p) ==
  /\ sweep[p].pc = "check"
  /\ \E g \in { DropUserGate(pg_roles, sweep[p].cur) } :
       sweep' = [sweep EXCEPT ![p] =
                   IF g.go THEN [@ EXCEPT !.pc = "terminate"]
                   ELSE DropSettled(@, FALSE, g.err, {})]
  /\ Suspend
  /\ UNCHANGED <<now, pg_roles, auditLog, jobsDone, pg_stat_activity>>
  /\ RaceFrame

\* gk_drop_user counts the active connections and terminates the backends
DropTerminate(p) ==
  /\ sweep[p].pc = "terminate"
  /\ pg_stat_activity' = TerminateBackends(pg_stat_activity, sweep[p].cur)
  /\ sweep' = [sweep EXCEPT ![p].pc = "drop"]
  /\ Suspend
  /\ UNCHANGED <<now, pg_roles, auditLog, jobsDone>>
  /\ RaceFrame

\* gk_drop_user revokes the privileges and executes DROP ROLE
DropRoleStep(p, fails) ==
  /\ sweep[p].pc = "drop"
  /\ \E r \in { DropRole(pg_roles, sweep[p].cur, fails) } :
       /\ pg_roles' = r.roles
       /\ sweep' = [sweep EXCEPT ![p] =
                      DropSettled(@, r.err = NoMsg, r.err,
                                  IF RoleExists(pg_roles, @.cur) /\ ~RoleExists(r.roles, @.cur)
                                    THEN {@.cur} ELSE {})]
  /\ Suspend
  /\ UNCHANGED <<now, auditLog, jobsDone, pg_stat_activity>>
  /\ RaceFrame

\* the statement's result reaches the provider: cleanup answers its job,
\* dropUser returns or throws
RaceReturn(p) ==
  /\ sweep[p].pc = "return"
  /\ IF sweep[p].op = "cleanup"
       THEN \E out \in { cleanupOutcome(sweep[p].job,
                                        [threw |-> FALSE, err |-> NoErr,
                                         rows |-> { CleanupRow(r) : r \in sweep[p].rows },
                                         roles |-> pg_roles, acq |-> 1, rel |-> 1,
                                         path |-> "success"]) } :
              /\ sweep' = [sweep EXCEPT ![p].pc = "done", ![p].res = out.res]
              /\ auditLog' = auditLog \o out.events
              /\ last' = [NoLast EXCEPT !.op = "processJob", !.job = sweep[p].job,
                                        !.res = out.res, !.events = out.events,
                                        !.rows = out.rows, !.logs = out.logs]
       ELSE /\ sweep' = [sweep EXCEPT ![p].pc = "done"]
            /\ auditLog' = auditLog
            /\ last' = [NoLast EXCEPT !.op = "dropUser", !.name = sweep[p].cur,
                                      !.threw = (sweep[p].err # NoMsg),
                                      !.err = IF sweep[p].err # NoMsg
                                                THEN ProviderError("USER_DROP_FAILED", TRUE)
                                                ELSE NoErr,
                                      !.ret = sweep[p].ret, !.msg = sweep[p].err]
  /\ UNCHANGED <<now, pg_roles, jobsDone, pg_stat_activity>>
  /\ RaceFrame

\* the database clock advances between the statements
RaceTick ==
  /\ now < MaxTime
  /\ now' = now + 1
  /\ Suspend
  /\ UNCHANGED <<pg_roles, auditLog, jobsDone, pg_stat_activity, sweep>>
  /\ RaceFrame

RaceCleanupJobs == { j \in CleanupJobs : j.olderThanMinutes \in {0, 1} /\ j.id = "j1" }
RaceConnect == \E n \in {"gk_a1"} : ClientConnect(n)
RaceQuery == \E n \in {"gk_a1"} : ClientQuery(n)
RaceStartCleanup == \E p \in Procs, j \in RaceCleanupJobs : StartCleanup(p, j)
RaceStartDrop == \E p \in Procs, n \in {"gk_a1", "gk_"} : StartDrop(p, n)
RaceSweepNext == \E p \in Procs : SweepNext(p)
RaceDropCheck == \E p \in Procs : DropCheck(p)
RaceDropTerminate == \E p \in Procs : DropTerminate(p)
RaceDropRole == \E p \in Procs, fails \in BOOLEAN : DropRoleStep(p, fails)
RaceReturns == \E p \in Procs : RaceReturn(p)

NextRace ==
  \/ RaceTick
  \/ RaceConnect
  \/ RaceQuery
  \/ RaceStartCleanup
  \/ RaceStartDrop
  \/ RaceSweepNext
  \/ RaceDropCheck
  \/ RaceDropTerminate
  \/ RaceDropRole
  \/ RaceReturns

SpecRace == InitRace /\ [][NextRace]_vars

\* ------------------------------------------------------------------------
\* Properties
\* ------------------------------------------------------------------------
IsJob(l, type) == l.op = "processJob" /\ ~l.threw /\ l.job.type = type
Absent(roles, n) == ~(n \in UserNames /\ roles[n].exists)
\* the usernames listEphemeralUsers() returns
ProviderListed(roles, t) ==
  { r.username : r \in listEphemeralUsers(TRUE, roles, t, "none").rows }
ProviderOps ==
  {"createEphemeralUser", "dropUser", "listEphemeralUsers", "cleanupExpiredUsers",
   "healthCheck"}

\* C1: a cleanup job removes no principal that the database still considers
\* valid (expiry not yet passed, or no expiry set), whatever jobs ran before.
C1_CleanupSparesValid ==
  [][ IsJob(last', "cleanup") =>
        \A n \in UserNames :
          (pg_roles[n].exists /\ ~IsExpired(pg_roles[n], now)) => pg_roles'[n].exists ]_vars

\* C2: a revoke_session job naming the sessionId of an earlier ready
\* create_session result returns revoked, emits session.revoked, and the
\* session's username is no longer listed.
C2_RevokeIssuedSession ==
  (IsJob(last, "revoke_session") /\ \E p \in issued : p[1] = last.job.sessionId) =>
    /\ last.res.status = "revoked"
    /\ \E i \in 1..Len(last.events) : last.events[i].eventType = "session.revoked"
    /\ \A p \in issued :
         p[1] = last.job.sessionId => p[2] \notin ProviderListed(pg_roles, now)

\* C3: every principal created by gk_create_ephemeral_user and not dropped
\* since is a row of gk_list_ephemeral_users(), with its connection limit.
C3_CreatedAreListed ==
  \A n \in UserNames :
    (pg_roles[n].exists /\ pg_roles[n].helper = "ephemeral") =>
      \E row \in gk_list_ephemeral_users(pg_roles, now) :
        row.username = n /\ row.connection_limit = pg_roles[n].connLimit

\* C4: every principal created through the create helper whose expiry is at
\* or before now minus olderThanMinutes gets a row from
\* cleanupExpiredUsers(olderThanMinutes) and, unless its drop fails, is removed
\* and no longer listed.
C4_ExpiredAreCandidates ==
  [][ (last'.op = "cleanupExpiredUsers" /\ ~last'.threw) =>
        \A n \in UserNames :
          ( /\ pg_roles[n].exists
            /\ pg_roles[n].helper = "ephemeral"
            /\ pg_roles[n].validUntil <= now - last'.older ) =>
            \E row \in last'.rows :
              /\ row.username = n
              /\ row.errorMessage = NoMsg =>
                   /\ row.dropped
                   /\ ~pg_roles'[n].exists
                   /\ n \notin ProviderListed(pg_roles', now') ]_vars

C6_CountRestoredAlways ==
  (last.op = "dropUser" /\ last.tracked) =>
    /\ last.name \notin ProviderListed(pg_roles, now)
    /\ Cardinality(ProviderListed(pg_roles, now)) = last.preCount

\* C6 amended: the username is not listed, and the number of listed
\* principals equals its value before the create when no principal of another
\* username was created or removed in between.
C6_CountRestoredWhenUndisturbed ==
  (last.op = "dropUser" /\ last.tracked) =>
    /\ last.name \notin ProviderListed(pg_roles, now)
    /\ ~last.dirty => Cardinality(ProviderListed(pg_roles, now)) = last.preCount

\* a followed pair has completed beside another listed principal
C6_Witness ==
  last.op = "dropUser" /\ last.tracked /\ ~last.dirty /\ last.preCount = 1

\* C7: a create_session job whose job id already produced a ready result
\* provisions no second principal and returns the same sessionId, username
\* and DSN.
C7_SameJobIdSameResult ==
  [][ (IsJob(last', "create_session") /\ last'.prior.status = "ready") =>
        /\ pg_roles' = pg_roles
        /\ last'.res.sessionId = last'.prior.sessionId
        /\ last'.res.username = last'.prior.username
        /\ last'.res.dsn = last'.prior.dsn ]_vars

\* C8: when the provider fails a create with USER_EXISTS or ROLE_NOT_FOUND,
\* the job result is failed, not retryable, and not INTERNAL_ERROR.
C8_ConflictNotRetryable ==
  (last.op = "processJob" /\ last.perr.code \in {"USER_EXISTS", "ROLE_NOT_FOUND"}) =>
    /\ last.res.status = "failed"
    /\ ~last.res.retryable
    /\ last.res.code # "INTERNAL_ERROR"

\* C9: processJob never raises to its caller; it returns a result, and a
\* failed result carries an error code.
C9_ProcessJobNeverRaises ==
  last.op = "processJob" =>
    /\ ~last.threw
    /\ last.res.status = "failed" => last.res.code # ""

\* C10: each provider operation releases the admin connection it acquired
\* exactly once on every exit path, so the number of checked-out connections
\* after the call equals its value before.
C10_ConnectionReleased ==
  last.op \in ProviderOps =>
    /\ last.acq \in {0, 1}
    /\ last.rel = last.acq
    /\ checkedOut = last.outBefore

\* a create whose rollback failed has returned
C10_Witness ==
  last.op = "createEphemeralUser" /\ last.path = "rollback_failed" /\ last.acq = 1

\* a create_session payload that passes the schema and the configured maximum
ValidCreate(job) ==
  /\ job.type = "create_session"
  /\ job.ttlMinutes >= 1
  /\ job.ttlMinutes <= sessionMaxTtlMinutes
OtherNames(p) == { inflight[q].uname : q \in Procs \ {p} }
Emitted(type, sid) ==
  \E i \in 1..Len(auditLog) :
    auditLog[i].eventType = type /\ auditLog[i].sessionId = sid

\* C11: of two create_session jobs that one orchestrator processes at the
\* same time, in every interleaving of their acquires, helper calls and
\* commits, each valid job ends ready or fails with retryable = true, and
\* neither fails with USER_EXISTS when the two generated usernames differ.
C11_ConcurrentCreates ==
  \A p \in Procs :
    (inflight[p].pc = "done" /\ ValidCreate(inflight[p].job)) =>
      \/ inflight[p].res.status = "ready"
      \/ /\ IF inflight[p].raised # NoErr
              THEN inflight[p].raised.retryable
              ELSE inflight[p].res.status = "failed" /\ inflight[p].res.retryable
         /\ inflight[p].uname \notin OtherNames(p) =>
              /\ inflight[p].perr.code # "USER_EXISTS"
              /\ inflight[p].res.code # "USER_EXISTS"

\* two interleaved jobs with different usernames have ended, one ready and
\* one failed on a lost statement
C11_Witness ==
  /\ inflight[1].pc = "done" /\ inflight[1].res.status = "ready"
  /\ inflight[2].pc = "done" /\ inflight[2].perr.code = "USER_CREATION_FAILED"
  /\ inflight[2].res.retryable
  /\ inflight[1].uname # inflight[2].uname
  /\ auditLog # <<>>

\* C12: within a create_session job session.created is emitted only after
\* the helper's transaction has committed and before the result is returned;
\* session.revoked is emitted only after dropUser returned true; a create or
\* revoke that fails emits no such event.
C12_AuditAfterEffect ==
  /\ \A p \in Procs :
       /\ Emitted("session.created", inflight[p].sid) <=> inflight[p].audited
       /\ inflight[p].audited =>
            /\ inflight[p].committed
            /\ inflight[p].pc \in {"return", "done"}
       /\ inflight[p].pc = "return" => inflight[p].audited
       /\ inflight[p].pc = "done" =>
            (inflight[p].audited <=> inflight[p].res.status = "ready")
  /\ \A n \in UserNames \cup {"", "bob"}, f \in StmtFaults \cup {"dropfail"} :
       \A r \in { dropUser(poolOpen, pg_roles, n, f) } :
         \A out \in { revokeSessionOutcome([NoJob EXCEPT !.id = "j1",
                                                         !.type = "revoke_session",
                                                         !.sessionId = "ses_c3"], n, r) } :
           /\ out.events # <<>> <=> (~r.threw /\ r.ret)
           /\ out.events # <<>> => out.res.status = "revoked"
           /\ \A i \in 1..Len(out.events) : out.events[i].eventType = "session.revoked"

\* a committed create has emitted its event and not yet returned, while the
\* other job has failed without an event
C12_Witness ==
  /\ inflight[1].pc = "return" /\ inflight[1].audited
  /\ pg_roles[inflight[1].uname].exists
  /\ inflight[2].pc = "done" /\ inflight[2].res.status = "failed"
  /\ ~Emitted("session.created", inflight[2].sid)

\* C13: every create_session job that ends ready has appended exactly one
\* session.created row for its session to gatekeeper_audit, and the rows
\* that were there before are unchanged.
C13_ReadyCreateAudited ==
  [][ (IsJob(last', "create_session") /\ last'.res.status = "ready") =>
        /\ Len(gatekeeper_audit') = Len(gatekeeper_audit) + 1
        /\ gatekeeper_audit'[Len(gatekeeper_audit')].event_type = "session.created"
        /\ gatekeeper_audit'[Len(gatekeeper_audit')].session_id = last'.res.sessionId
        /\ SubSeq(gatekeeper_audit', 1, Len(gatekeeper_audit)) = gatekeeper_audit ]_vars

\* C14: in gatekeeper_audit every row but the first has prev_hash equal to
\* the event_hash of the row before it, and every row's event_hash is the
\* hash of its event_type together with its event_data.
C14_AuditChain ==
  \A i \in 1..Len(gatekeeper_audit) :
    /\ i > 1 => gatekeeper_audit[i].prev_hash = gatekeeper_audit[i - 1].event_hash
    /\ gatekeeper_audit[i].event_hash =
         Sha256(<<gatekeeper_audit[i].event_type>> \o gatekeeper_audit[i].event_data)

FailsValidation(job) ==
  \/ job.id = ""
  \/ job.type \notin {"create_session", "revoke_session", "cleanup"}
  \/ /\ job.type = "create_session"
     /\ \/ job.ttlMinutes < 1
        \/ job.ttlMinutes > SchemaMaxTtl
        \/ job.ttlMinutes > sessionMaxTtlMinutes
        \/ job.role \notin {"app_read", "app_write", "app_admin"}
  \/ job.type = "revoke_session" /\ job.sessionId = ""
  \/ job.type = "cleanup" /\ job.olderThanMinutes # NULL /\ job.olderThanMinutes < 0

\* C16: a job that fails validation (it does not decode, or it is a
\* create_session above the configured maximum TTL) yields failed /
\* VALIDATION_ERROR / not retryable, acquires no connection for a provider
\* call and leaves the roles unchanged.
C16_ValidationFailure ==
  [][ (last'.op = "processJob" /\ ~last'.threw /\ FailsValidation(last'.job)) =>
        /\ last'.res.status = "failed"
        /\ last'.res.code = "VALIDATION_ERROR"
        /\ ~last'.res.retryable
        /\ last'.acq = 0 /\ last'.perr = NoErr
        /\ pg_roles' = pg_roles ]_vars

\* a create_session above the configured maximum has been refused
C16_Witness ==
  /\ last.op = "processJob" /\ last.job.type = "create_session"
  /\ last.job.ttlMinutes = sessionMaxTtlMinutes + 1
  /\ last.res.code = "VALIDATION_ERROR"

ReachedProvider(l) == l.res.status = "ready" \/ l.perr # NoErr
TtlJob(l) == l.op = "processJob" /\ ~l.threw /\ l.job.type = "create_session"

\* C17 as stated: for every configured maximum M >= 1, ttlMinutes = M reaches
\* the provider, ttlMinutes = M + 1 and ttlMinutes = 0 are validation errors.
C17_TtlEdgesAnyMaximum ==
  TtlJob(last) =>
    /\ last.job.ttlMinutes = sessionMaxTtlMinutes => ReachedProvider(last)
    /\ last.job.ttlMinutes \in {0, sessionMaxTtlMinutes + 1} =>
         last.res.code = "VALIDATION_ERROR"

\* C17 amended: for every configured maximum M with 1 <= M <= 1440,
\* ttlMinutes = M reaches the provider; for every M >= 1, ttlMinutes = M + 1
\* and ttlMinutes = 0 are validation errors.
C17_TtlEdgesWithinSchema ==
  TtlJob(last) =>
    /\ (last.job.ttlMinutes = sessionMaxTtlMinutes /\ sessionMaxTtlMinutes <= SchemaMaxTtl) =>
         ReachedProvider(last)
    /\ last.job.ttlMinutes \in {0, sessionMaxTtlMinutes + 1} =>
         last.res.code = "VALIDATION_ERROR"

\* a job at the configured maximum of 1440 minutes has ended ready
C17_Witness ==
  /\ TtlJob(last)
  /\ sessionMaxTtlMinutes = SchemaMaxTtl /\ last.job.ttlMinutes = SchemaMaxTtl
  /\ last.res.status = "ready"

\* C18: a revoke_session job whose sessionId resolves to no username returns
\* not_found, emits no audit event, makes no dropUser call and leaves the
\* roles unchanged.
C18_UnresolvedRevoke ==
  [][ (IsJob(last', "revoke_session")
         /\ findUsernameForSession(last'.job.sessionId, issued) = "") =>
        /\ last'.res.status = "not_found"
        /\ last'.events = <<>> /\ auditLog' = auditLog
        /\ last'.acq = 0 /\ last'.perr = NoErr
        /\ pg_roles' = pg_roles ]_vars

\* a revoke_session for the sessionId of a ready result has returned not_found
C18_Witness ==
  /\ IsJob(last, "revoke_session") /\ last.res.status = "not_found"
  /\ \E p \in issued : p[1] = last.job.sessionId /\ pg_roles[p[2]].exists

\* C19: for every cleanup job that completes, cleanedCount equals the number
\* of rows with dropped = true that cleanupExpiredUsers returned, and the
\* number of roles the call removed.
C19_CleanedCount ==
  [][ (IsJob(last', "cleanup") /\ last'.res.status = "completed") =>
        /\ last'.res.cleanedCount = Cardinality({ row \in last'.rows : row.dropped })
        /\ last'.res.cleanedCount =
             Cardinality({ n \in UserNames : pg_roles[n].exists /\ ~pg_roles'[n].exists }) ]_vars

\* a cleanup has completed with one role removed and one drop refused
C19_Witness ==
  /\ IsJob(last, "cleanup") /\ last.res.status = "completed"
  /\ last.res.cleanedCount = 1
  /\ \E row \in last.rows : ~row.dropped

\* C20: every result processJob returns has the shape of the job's variant,
\* also when it fails: a failed create_session result carries a sessionId,
\* a failed cleanup result carries cleanedCount = 0.
C20_ResultShape ==
  (last.op = "processJob" /\ ~last.threw /\ last.res.status = "failed") =>
    /\ last.job.type = "create_session" => last.res.sessionId # ""
    /\ last.job.type = "cleanup" => last.res.cleanedCount = 0

\* C21: after a successful initialization, however many shutdown calls follow
\* and however they overlap, provider.close() is invoked at most once (and once
\* by the first of them).
C21_CloseInvokedOnce ==
  closing.calls <= 1

\* C22: every result of the orchestrator's healthCheck has a status among ok,
\* degraded and down, and a details.provider object with the provider's type
\* tag and version.
C22_HealthShape ==
  last.op = "agentHealthCheck" =>
    /\ last.status \in {"ok", "degraded", "down"}
    /\ last.provider = PostgresTag

\* C29: whatever shutdown calls run between and during processJob calls, no
\* job result comes from a provider operation that raised NOT_INITIALIZED.
C29_NoNotInitializedFailure ==
  last.op = "processJob" => last.perr.code # "NOT_INITIALIZED"

\* C28: when concurrent initial jobs make provider.initialize run more than
\* once, the provider is left with one open admin pool: no pool opened by an
\* earlier invocation stays open without being referenced (so that a later
\* close() ends every pool that was opened).
C28_NoOrphanPool ==
  ~orphanPool

SupportedSet(reg) == { t \in DatabaseTypes : isSupported(reg, t) }
ListedTypes(reg) == { getSupportedTypes(reg)[i] : i \in 1..Len(getSupportedTypes(reg)) }

\* C23: after any register and clear calls, a tag is supported exactly when
\* getSupportedTypes lists it; create of a supported tag returns an instance
\* built by the factory registered for it last (a register changes the answer
\* for its own tag only, and re-registering leaves the supported set as it
\* was), create of any other tag raises PROVIDER_NOT_FOUND, and after clear no
\* tag is supported.
C23_RegistryCatalog ==
  [][ /\ \A t \in DatabaseTypes :
           /\ isSupported(factories', t) <=> t \in ListedTypes(factories')
           /\ isSupported(factories', t) <=> ~create(factories', t).threw
           /\ ~isSupported(factories', t) => create(factories', t).err = ProviderNotFound
      /\ last'.op = "register" =>
           /\ create(factories', last'.name).instance = last'.factory
           /\ SupportedSet(factories') = SupportedSet(factories) \cup {last'.name}
           /\ \A t \in DatabaseTypes \ {last'.name} :
                create(factories', t) = create(factories, t)
      /\ last'.op = "create" =>
           /\ factories' = factories
           /\ last'.threw = ~isSupported(factories, last'.name)
           /\ last'.threw => last'.err = ProviderNotFound
           /\ ~last'.threw => last'.instance = get(factories, last'.name)
      /\ last'.op = "clear" => SupportedSet(factories') = {} ]_vars

\* a tag has been registered again with another factory, next to a second tag
C23_Witness ==
  /\ last.op = "register"
  /\ last.replaced \notin {NoFactory, last.factory}
  /\ size(factories) >= 2

\* C24: constructing the orchestrator (no injected provider) with an engine
\* tag the process-wide registry has been set up to omit fails with
\* PROVIDER_NOT_FOUND.
C24_OmittedEngineRefused ==
  last.op = "construct" /\ ~last.ret =>
    last.threw /\ last.err = ProviderNotFound

\* C27: a ready create result carries expiresAt = (a clock reading taken
\* during the call) + ttlMinutes, the created principal's valid-until is that
\* same instant, and the instant is still ahead of the clock when the result
\* is returned.
C27_ExpiryAhead ==
  last.op = "processJob" /\ last.res.status = "ready" =>
    /\ last.res.expiresAt - last.job.ttlMinutes \in 0..now
    /\ pg_roles[last.res.username].validUntil = last.res.expiresAt
    /\ last.res.expiresAt > now

\* the code each provider operation gives the faults it catches
FailureCode(op) ==
  CASE op = "createEphemeralUser" -> "USER_CREATION_FAILED"
    [] op = "dropUser" -> "USER_DROP_FAILED"
    [] op = "listEphemeralUsers" -> "USER_LIST_FAILED"
    [] op = "cleanupExpiredUsers" -> "CLEANUP_FAILED"
    [] OTHER -> ""
\* the exits a lost connection or an exhausted pool takes
TransientPaths == {"connect", "begin", "statement", "commit", "rollback_failed"}

\* C30: on an initialized provider, every transient database fault met by
\* createEphemeralUser, dropUser, listEphemeralUsers or cleanupExpiredUsers,
\* a failure to acquire a connection included, is raised as a provider error
\* with the operation's own code and retryable = true.
C30_TransientFaultsRetryable ==
  FailureCode(last.op) # "" /\ last.path \in TransientPaths =>
    /\ last.threw
    /\ last.err = ProviderError(FailureCode(last.op), TRUE)

\* 'gk_' followed by one or more of [a-zA-Z0-9_], 4 to 63 characters in all
WellFormedName(n) ==
  /\ MatchesCreatePattern(n)
  /\ Len(Chars(n)) >= 4
  /\ Len(Chars(n)) < NAMEDATALEN

\* C25: gk_create_ephemeral_user refuses, without creating a role, every
\* username that is not 'gk_' plus alphanumerics and underscores or whose
\* length is outside 4..63; so every ephemeral principal that exists has such
\* a name.
C25_NameRefused ==
  [][ /\ (last'.op = "gk_create_ephemeral_user" /\ ~WellFormedName(last'.name)) =>
           /\ last'.msg # NoMsg
           /\ pg_roles' = pg_roles
      /\ \A n \in UserNames :
           (pg_roles'[n].exists /\ pg_roles'[n].helper = "ephemeral") => WellFormedName(n)
    ]_vars

\* the three checks of C26 on a call's arguments, against the roles and the
\* clock the call finds
ArgsPass(l, roles, t) ==
  /\ l.args.password # ""
  /\ l.args.valid_until > t
  /\ RoleExists(roles, l.args.role_name)

\* C26 as stated: gk_create_ephemeral_user creates a login only when the
\* password is non-empty, valid_until is later than the database's clock and
\* the role pack exists; when a check fails it raises and no login with that
\* name exists afterwards; a created login bears a future expiry.
C26_FailedCheckLeavesNoLogin ==
  [][ last'.op = "gk_create_ephemeral_user" =>
        /\ pg_roles' # pg_roles => ArgsPass(last', pg_roles, now)
        /\ ~ArgsPass(last', pg_roles, now) =>
             /\ last'.msg # NoMsg
             /\ Absent(pg_roles', Identifier(last'.name))
        /\ last'.msg = NoMsg => pg_roles'[Identifier(last'.name)].validUntil > now'
    ]_vars

\* C26, amended: when a check fails the call raises and leaves every role as
\* it was (a login that already had the name included).
C26_FailedCheckCreatesNothing ==
  [][ last'.op = "gk_create_ephemeral_user" =>
        /\ pg_roles' # pg_roles => ArgsPass(last', pg_roles, now)
        /\ ~ArgsPass(last', pg_roles, now) =>
             /\ last'.msg # NoMsg
             /\ pg_roles' = pg_roles
        /\ last'.msg = NoMsg =>
             /\ pg_roles'[Identifier(last'.name)].exists
             /\ pg_roles'[Identifier(last'.name)].validUntil > now'
    ]_vars

\* a call whose valid_until is the present instant has been refused, on a
\* name that is in use
C26_Witness ==
  /\ last.op = "gk_create_ephemeral_user"
  /\ last.msg = MsgPast
  /\ last.args.valid_until = now
  /\ RoleExists(pg_roles, last.name)

\* C31: when the create helper statement fails, createEphemeralUser rolls the
\* transaction back (no role is changed) and raises USER_EXISTS, not retryable,
\* if the statement's error says the name already exists, ROLE_NOT_FOUND, not
\* retryable, if it says the role does not exist, and USER_CREATION_FAILED,
\* retryable, for any other error.
C31_HelperFailureMapped ==
  [][ (last'.op = "createEphemeralUser" /\ last'.msg # NoMsg) =>
        /\ last'.threw
        /\ pg_roles' = pg_roles
        /\ last'.err =
             IF Includes(last'.msg, <<"already", "exists">>)
               THEN ProviderError("USER_EXISTS", FALSE)
             ELSE IF Includes(last'.msg, <<"Role">>)
                       /\ Includes(last'.msg, <<"does", "not", "exist">>)
               THEN ProviderError("ROLE_NOT_FOUND", FALSE)
             ELSE ProviderError("USER_CREATION_FAILED", TRUE) ]_vars

\* C32: once createEphemeralUser has succeeded (its transaction is committed)
\* for a create_session job, no later step fails the job: when the job
\* returns, its result is ready with the DSN, expiresAt and username, and a
\* job that returned failed has committed no principal.
C32_ReadyStaysReady ==
  \A p \in Procs :
    /\ inflight[p].committed =>
         \/ inflight[p].pc \in {"release", "audit", "return"}
         \/ /\ inflight[p].pc = "done"
            /\ inflight[p].raised = NoErr
            /\ inflight[p].res.status = "ready"
            /\ inflight[p].res.username = inflight[p].uname
            /\ inflight[p].res.dsn = GenerateDsn(inflight[p].uname, inflight[p].pw)
            /\ inflight[p].res.expiresAt = inflight[p].expiresAt
            /\ pg_roles[inflight[p].uname].exists
    /\ (inflight[p].pc = "done" /\ inflight[p].res.status = "failed") =>
         ~inflight[p].committed

\* both jobs have committed their principal and returned ready
C32_Witness ==
  \A p \in Procs :
    /\ inflight[p].pc = "done"
    /\ inflight[p].committed
    /\ inflight[p].res.status = "ready"

C34_RowShape(row) ==
  LET removedRow == row.dropped
      failedRow == row.wasExpired /\ ~row.dropped /\ row.errorMessage # NoMsg
      sparedRow == ~row.wasExpired /\ ~row.dropped
  IN Cardinality({ k \in {1, 2, 3} : \/ k = 1 /\ removedRow
                                     \/ k = 2 /\ failedRow
                                     \/ k = 3 /\ sparedRow }) = 1
C34_CleanupRowShapes ==
  IsJob(last, "cleanup") => \A row \in last.rows : C34_RowShape(row)

\* the principals call p has reported as removed, once it has returned
Reported(p) ==
  IF sweep[p].pc # "done" THEN {}
  ELSE IF sweep[p].op = "cleanup"
    THEN { r.username : r \in { x \in sweep[p].rows : x.dropped } }
  ELSE IF sweep[p].ret THEN {sweep[p].cur} ELSE {}
\* cleanedCount of a returned cleanup, 1 for a dropUser that returned true
ReportCount(p) ==
  IF sweep[p].pc # "done" THEN 0
  ELSE IF sweep[p].op = "cleanup" THEN sweep[p].res.cleanedCount
  ELSE IF sweep[p].ret THEN 1 ELSE 0
Removed == UNION { sweep[p].removed : p \in Procs }

\* C35: of two concurrent calls removing the same principal (two cleanups,
\* or a cleanup and a dropUser) exactly one reports the removal, and the
\* cleanedCounts plus the true dropUser returns never exceed the number of
\* principals removed.
C35_OneReportPerRemoval ==
  /\ \A n \in UserNames : Cardinality({ p \in Procs : n \in Reported(p) }) <= 1
  /\ ReportCount(1) + ReportCount(2) <= Cardinality(Removed)
  /\ (\A p \in Procs : sweep[p].pc = "done") =>
       \A n \in Removed : \E p \in Procs : n \in Reported(p)
C35_Witness ==
  /\ \A p \in Procs : sweep[p].pc = "done"
  /\ sweep[1].op = "cleanup" /\ sweep[2].op = "dropUser"
  /\ \E n \in Removed :
       /\ sweep[2].cur = n
       /\ \E r \in sweep[1].rows : r.username = n
       /\ Cardinality({ p \in Procs : n \in Reported(p) }) = 1

\* C36: when gk_drop_user returns true for an existing login, every
\* connection of that login but the caller's own has been terminated, so
\* that no session of the login remains connected.
C36_NoSessionSurvivesDrop ==
  [][ \A n \in RaceNames :
        (pg_roles[n].exists /\ ~pg_roles'[n].exists) =>
          pg_stat_activity'[n] = NoBackends ]_vars

\* C37: a cleanup job emits exactly one sessions.cleaned audit event when at
\* least one returned row has dropped = true, carrying the count and the
\* usernames of exactly the dropped rows, and no audit event when no row was
\* dropped or the provider call failed.
C37_CleanupAudit ==
  [][ IsJob(last', "cleanup") =>
        LET ok == { row \in last'.rows : row.dropped } IN
          /\ auditLog' = auditLog \o last'.events
          /\ IF last'.res.status = "completed" /\ ok # {}
               THEN /\ Len(last'.events) = 1
                    /\ last'.events[1].eventType = "sessions.cleaned"
                    /\ last'.events[1].cleanedCount = Cardinality(ok)
                    /\ last'.events[1].cleanedUsers = { row.username : row \in ok }
               ELSE last'.events = <<>> ]_vars

\* a cleanup dropped one role, was refused another, and emitted its event
C37_Witness ==
  /\ IsJob(last, "cleanup") /\ Len(last.events) = 1
  /\ \E row \in last.rows : row.dropped
  /\ \E row \in last.rows : ~row.dropped

\* the words of a statement that create, alter or remove a role
RoleCommands == {"CREATE", "DROP", "ALTER", "GRANT", "REVOKE"}
PrincipalHelpers ==
  {"gk_create_ephemeral_user", "gk_drop_user", "gk_cleanup_expired_users"}
Words(text) == { text[i] : i \in 1..Len(text) }
Placeholders(text) == { w \in Words(text) : w \in {"$1", "$2", "$3", "$4", "$5"} }
\* SELECT of one helper, every argument a placeholder with a bound value
HelperCall(st) ==
  /\ st.text[1] = "SELECT"
  /\ Words(st.text) \cap PrincipalHelpers # {}
  /\ Cardinality(Placeholders(st.text)) = Len(st.params)
  /\ Len(st.params) > 0

\* C38: every statement the provider issues that creates, alters or removes
\* a principal is an invocation of a bootstrap helper (create_ephemeral, drop,
\* cleanup_expired) with bound parameters; the provider sends no statement
\* that creates or drops a role itself.
C38_OnlyHelperStatements ==
  [][ last'.op \in ProviderOps \cup {"initialize"} =>
        /\ \A i \in 1..Len(last'.stmts) :
             /\ Words(last'.stmts[i].text) \cap RoleCommands = {}
             /\ Words(last'.stmts[i].text) \cap (UserNames \cup Passwords) = {}
             /\ Words(last'.stmts[i].text) \cap PrincipalHelpers # {}
                  => HelperCall(last'.stmts[i])
        /\ pg_roles' # pg_roles =>
             \E i \in 1..Len(last'.stmts) :
               /\ HelperCall(last'.stmts[i])
               /\ last'.op \in {"createEphemeralUser", "dropUser"}
                    => last'.stmts[i].params[1] = last'.name ]_vars

\* dropUser removed a role through its one statement
C38_Witness ==
  /\ last.op = "dropUser" /\ last.ret
  /\ Len(last.stmts) = 1 /\ last.stmts[1].params = <<last.name>>

\* C39: the provider's healthCheck answers healthy when its probe succeeds
\* and every gk_validate_setup check is OK, degraded when the probe succeeds
\* and a check is not OK, unhealthy when the pool is absent or the
\* connection fails; the orchestrator answers ok for healthy, degraded for
\* degraded and down for unhealthy.
C39_HealthMapping ==
  [][ (last'.op = "agentHealthCheck" /\ last'.path # "init_failed") =>
        /\ last'.health =
             IF last'.path = "success"
               THEN IF last'.checksOk THEN "healthy" ELSE "degraded"
               ELSE "unhealthy"
        /\ last'.path = "not_initialized" <=> ~poolOpen'
        /\ last'.status = IF last'.health = "healthy" THEN "ok"
                          ELSE IF last'.health = "degraded" THEN "degraded"
                          ELSE "down"
        /\ last'.health = "unhealthy" => last'.path \in {"not_initialized", "connect",
                                                         "statement"} ]_vars

\* a health check found a validation check that is not OK
C39_Witness ==
  /\ last.op = "agentHealthCheck" /\ last.health = "degraded" /\ last.status = "degraded"
  /\ ~last.checksOk

\* a revoke_session job whose session the lookup has resolved
ResolvedRevoke == [NoJob EXCEPT !.id = "j2", !.type = "revoke_session", !.sessionId = "ses_d4"]

\* C40: for a revoke_session job whose username was resolved: dropUser
\* returning true gives revoked with a session.revoked event, false gives
\* not_found with no event, and a failure of the provider gives failed with
\* code REVOCATION_ERROR and retryable = true.
C40_RevokeOutcomes ==
  \A n \in UserNames, f \in StmtFaults \cup {"dropfail"} :
    \A r \in { dropUser(poolOpen, pg_roles, n, f) } :
      \A out \in { revokeSessionOutcome(ResolvedRevoke, n, r) } :
        IF r.threw
          THEN /\ out.res.status = "failed"
               /\ out.res.code = "REVOCATION_ERROR" /\ out.res.retryable
               /\ out.events = <<>>
        ELSE IF r.ret
          THEN /\ out.res.status = "revoked"
               /\ Len(out.events) = 1
               /\ out.events[1].eventType = "session.revoked"
               /\ out.events[1].sessionId = ResolvedRevoke.sessionId
               /\ out.events[1].username = n
          ELSE /\ out.res.status = "not_found"
               /\ out.events = <<>>

\* the provider is ready and holds a login whose revocation would succeed,
\* next to a name whose revocation would find nothing
C40_Witness ==
  /\ initialized /\ poolOpen
  /\ \E n \in UserNames :
       /\ pg_roles[n].exists
       /\ revokeSessionOutcome(ResolvedRevoke, n,
                               dropUser(poolOpen, pg_roles, n, "none")).res.status = "revoked"
  /\ \E n \in UserNames :
       revokeSessionOutcome(ResolvedRevoke, n,
                            dropUser(poolOpen, pg_roles, n, "none")).res.status = "not_found"

====
